---- MODULE Spec2Model ----
(***************************************************************************)
(* Incremental extraction engine of PuntaFina_DW_Oro:                      *)
(*   scripts/build_facts.py   (fact_ventas_linea, fact_pago)               *)
(*   scripts/build_quotes.py  (fact_cotizacion, fact_cotizacion_linea)     *)
(* One behaviour is a sequence of runs of one script against a state       *)
(* directory, an output directory and a source database that changes       *)
(* freely between runs.                                                    *)
(*                                                                         *)
(* Time is counted in ticks; Sub ticks make one second.  A timestamp is a  *)
(* tick count, a watermark string "%Y-%m-%d %H:%M:%S" is the tick count of *)
(* the whole second it denotes.                                            *)
(***************************************************************************)
EXTENDS Integers, Sequences, FiniteSets, TLC

\* ------------------------------------------------------------------------
\* Bounds of the model
\* ------------------------------------------------------------------------
Sub == 2
MaxTime == 2
MaxRows == 2

\* ------------------------------------------------------------------------
\* Values
\* ------------------------------------------------------------------------
\* SQL NULL / pandas NaT in a timestamp cell
NULL == -1
\* Python None
None == -2

Times == 0..MaxTime
TsOrNull == Times \cup {NULL}

\* State file of a target: missing, present but not parseable as JSON,
\* or {"watermark": w}
Absent == [kind |-> "absent", watermark |-> None]
Corrupt == [kind |-> "corrupt", watermark |-> None]
Json(w) == [kind |-> "json", watermark |-> w]

\* ------------------------------------------------------------------------
\* Scripts and their targets, in the order main() processes them
\* ------------------------------------------------------------------------
Scripts ==
  {"build_facts", "build_quotes", "build_dimensions", "build_all_dimensions"}

\* The scripts with incremental targets
FactScripts == {"build_facts", "build_quotes"}

\* DIM_SOURCES of build_dimensions, in dict order
DIM_SOURCES ==
  <<"dim_producto", "dim_cliente", "dim_usuario", "dim_sitio_web", "dim_canal",
    "dim_precio_lista", "dim_promocion", "dim_pago_status">>

\* The builders build_all_dimensions.main calls, in call order
DimBuilders ==
  <<"dim_fecha", "dim_cliente", "dim_producto", "dim_usuario", "dim_sitio_web",
    "dim_canal", "dim_direccion", "dim_envio", "dim_pago", "dim_impuestos",
    "dim_promocion", "dim_orden", "dim_line_item">>

TargetsOf(s) ==
  IF s = "build_facts" THEN <<"fact_ventas_linea", "fact_pago">>
  ELSE IF s = "build_quotes" THEN <<"fact_cotizacion", "fact_cotizacion_linea">>
  ELSE IF s = "build_dimensions" THEN DIM_SOURCES
  ELSE DimBuilders

\* The targets that have a state file
Targets == {"fact_ventas_linea", "fact_pago", "fact_cotizacion", "fact_cotizacion_linea"}

\* ------------------------------------------------------------------------
\* settings.yaml: each recognised key is absent, true or false
\* ------------------------------------------------------------------------
YamlValues == {"absent", "true", "false"}

\* bool(SETTINGS.get(key, default))
get(v, default) == IF v = "absent" THEN default ELSE v = "true"

EXPORTAR_PARQUET(f) == get(f.exportar_parquet, TRUE)
EXPORTAR_CSV(f) == get(f.exportar_csv, FALSE)
\* build_facts.main: bool(INCR_CFG.get("order_lines", False)) and
\* bool(INCR_CFG.get("payments", False)); build_quotes: INCR_QUOTES
INCR_ORDER_LINES(f) == get(f.order_lines, FALSE)
INCR_PAYMENTS(f) == get(f.payments, FALSE)
INCR_QUOTES(f) == get(f.quotes, TRUE)

\* The settings files a script can be started with; keys the script never
\* reads are kept absent.
SettingsFiles(s) ==
  [exportar_parquet : IF s = "build_all_dimensions" THEN {"absent"} ELSE YamlValues,
   exportar_csv : IF s = "build_all_dimensions" THEN {"absent"} ELSE YamlValues,
   order_lines : IF s = "build_facts" THEN YamlValues ELSE {"absent"},
   payments : IF s = "build_facts" THEN YamlValues ELSE {"absent"},
   quotes : IF s = "build_quotes" THEN YamlValues ELSE {"absent"}]

\* Module globals of a script after loading a settings file
LoadSettings(f) ==
  [EXPORTAR_PARQUET |-> EXPORTAR_PARQUET(f),
   EXPORTAR_CSV |-> EXPORTAR_CSV(f),
   order_lines |-> INCR_ORDER_LINES(f),
   payments |-> INCR_PAYMENTS(f),
   quotes |-> INCR_QUOTES(f)]

NoSettings ==
  [EXPORTAR_PARQUET |-> TRUE, EXPORTAR_CSV |-> FALSE,
   order_lines |-> FALSE, payments |-> FALSE, quotes |-> FALSE]

incr_enabled(cfg, t) ==
  IF t = "fact_ventas_linea" THEN cfg.order_lines
  ELSE IF t = "fact_pago" THEN cfg.payments
  ELSE cfg.quotes

\* ------------------------------------------------------------------------
\* Watermark store
\* ------------------------------------------------------------------------
Seconds == {t \in Times : t % Sub = 0}
Files == {Absent, Corrupt} \cup {Json(w) : w \in Seconds}

\* One state file shared by every target (the path ignores fact_name)
write_watermark_Shared(files, t, wm) == [x \in DOMAIN files |-> Json(wm)]

\* read_watermark: None when the file is missing or json.loads raises
read_watermark(files, t) ==
  IF files[t].kind = "json" THEN files[t].watermark ELSE None

\* write_watermark that returns normally: only the file of fact_name changes
write_watermark(files, t, wm) == [files EXCEPT ![t] = Json(wm)]

\* write_watermark that raises: Path.write_text either failed to open the
\* file (unchanged) or truncated it before the write failed
write_watermark_raises(files, t) ==
  {files, [files EXCEPT ![t] = Corrupt]}

\* ------------------------------------------------------------------------
\* Incremental predicate
\* ------------------------------------------------------------------------
NoWhere == [clause |-> <<>>, params |-> None, used |-> FALSE]

\* The predicate is never applied
build_where_incremental_NoPredicate(column, enabled, last_wm) == NoWhere

\* The comparison is reversed
build_where_incremental_Reversed(column, enabled, last_wm) ==
  IF enabled /\ last_wm # None
  THEN [clause |-> <<column, "<", "%(wm)s">>, params |-> last_wm, used |-> TRUE]
  ELSE NoWhere

\* The comparison is not strict
build_where_incremental_Ge(column, enabled, last_wm) ==
  IF enabled /\ last_wm # None
  THEN [clause |-> <<column, ">=", "%(wm)s">>, params |-> last_wm, used |-> TRUE]
  ELSE NoWhere

\* The flag is not looked at: a stored watermark always filters
build_where_incremental_IgnoresFlag(column, enabled, last_wm) ==
  IF last_wm # None
  THEN [clause |-> <<column, ">", "%(wm)s">>, params |-> last_wm, used |-> TRUE]
  ELSE NoWhere

\* build_where_incremental: (where_clause, params, incr_used)
build_where_incremental(column, enabled, last_wm) ==
  IF enabled /\ last_wm # None
  THEN [clause |-> <<column, ">", "%(wm)s">>, params |-> last_wm, used |-> TRUE]
  ELSE NoWhere

\* Column expression each main() passes to build_where_incremental
IncrColumn(t) ==
  IF t = "fact_ventas_linea" THEN "o.updated_at"
  ELSE IF t = "fact_pago" THEN "COALESCE(t.updated_at, t.created_at)"
  ELSE IF t = "fact_cotizacion" THEN "COALESCE(updated_at, created_at)"
  ELSE "COALESCE(sq.updated_at, sq.created_at)"

\* SQL COALESCE of two nullable timestamps
Coalesce(a, b) == IF a # NULL THEN a ELSE b

\* Value of a predicate column expression on a source row
EvalColumn(column, r) ==
  IF column = "o.updated_at" THEN r.u ELSE Coalesce(r.u, r.c)

\* SQL comparison `expr <op> %(wm)s`; a NULL operand makes the row fail
Compare(v, op, wm) ==
  /\ v # NULL
  /\ IF op = ">" THEN v > wm
     ELSE IF op = ">=" THEN v >= wm
     ELSE IF op = "<" THEN v < wm
     ELSE FALSE

\* Rows a where-clause keeps
Satisfies(r, where) ==
  \/ where.clause = <<>>
  \/ /\ where.clause # <<>>
     /\ Compare(EvalColumn(where.clause[1], r), where.clause[2], where.params)

\* ------------------------------------------------------------------------
\* Source rows and result frames
\* ------------------------------------------------------------------------
\* A source row of a target's driving table after its joins: the key and
\* the updated/created timestamps the target's incremental logic looks at.
Rows == [id : 1..MaxRows, u : TsOrNull, c : TsOrNull]

\* Rows are listed by key in a fixed order of their timestamp cells: the
\* key of a row is only a label, so one source per multiset of cells
CellKey(cell) == (cell[1] + 1) * (MaxTime + 2) + (cell[2] + 1)

\* Contents of the source at the moment of a query: at most MaxRows rows,
\* keys 1..n
Sources ==
  UNION {{{[id |-> i, u |-> f[i][1], c |-> f[i][2]] : i \in 1..n} :
           f \in {g \in [1..n -> TsOrNull \X TsOrNull] :
                    \A i \in 1..(n - 1) : CellKey(g[i]) <= CellKey(g[i + 1])}} :
         n \in 0..MaxRows}

\* Output columns of each target's query, in select order.  A frame keeps
\* the full list of column names; of the cells of a row only the key and
\* the timestamp cells are kept.
Columns(t) ==
  IF t = "fact_ventas_linea" THEN
    <<"order_id", "line_item_id", "product_id", "sku", "product_unit",
      "quantity", "precio_unitario", "subtotal_linea", "descuento_linea",
      "impuestos_linea", "currency_code", "fecha_creacion_pedido",
      "fecha_actualizacion_pedido", "website_id", "customer_id",
      "usuario_owner_id", "estado_pedido">>
  ELSE IF t = "fact_pago" THEN
    <<"transaction_id", "order_id", "monto", "currency_code", "tipo_accion",
      "payment_method", "status_raw", "es_exitoso", "created_at",
      "updated_at">>
  ELSE IF t = "fact_cotizacion" THEN
    <<"quote_id", "customer_id", "customer_user_id", "website_id",
      "po_number", "currency_code", "subtotal", "total", "created_at",
      "updated_at", "estado">>
  ELSE
    <<"quote_id", "quote_product_id", "product_id", "sku", "product_unit",
      "request_id", "quantity", "offer_id", "price", "currency_code">>

Range(seq) == {seq[i] : i \in DOMAIN seq}

NoFrame == [columns |-> {}, rows |-> {}]

\* Timestamp columns each main() hands to max_timestamp
TsCols(t) ==
  IF t = "fact_ventas_linea"
  THEN <<"fecha_actualizacion_pedido", "fecha_creacion_pedido">>
  ELSE IF t = "fact_pago" THEN <<"updated_at", "created_at">>
  ELSE IF t = "fact_cotizacion" THEN <<"updated_at", "created_at">>
  ELSE <<"sq.updated_at", "sq.created_at", "updated_at", "created_at">>

\* The instant is rounded up to the next whole second
strftime_Ceil(t) == t + ((Sub - (t % Sub)) % Sub)

\* mx.strftime("%Y-%m-%d %H:%M:%S"): the fraction of the second is dropped
strftime(t) == t - (t % Sub)

SetMax(S) == CHOOSE m \in S : \A x \in S : x <= m

\* df[c].isna().all(); true of a frame without rows
AllNa(df, c) == \A r \in df.rows : r[c] = NULL

\* Only the first listed column is looked at
max_timestamp_NoFallback(df, cols) ==
  IF cols # <<>> /\ Head(cols) \in df.columns /\ ~AllNa(df, Head(cols))
  THEN strftime(SetMax({r[Head(cols)] : r \in df.rows} \ {NULL}))
  ELSE None

\* max_timestamp(df, cols): first listed column that is in the frame and
\* has a non-null cell; None when there is none
RECURSIVE max_timestamp(_, _)
max_timestamp(df, cols) ==
  IF cols = <<>> THEN None
  ELSE IF Head(cols) \in df.columns /\ ~AllNa(df, Head(cols))
       THEN strftime(SetMax({r[Head(cols)] : r \in df.rows} \ {NULL}))
       ELSE max_timestamp(df, Tail(cols))

\* ------------------------------------------------------------------------
\* Schema introspection and the quote query builders
\* ------------------------------------------------------------------------
QuoteTables ==
  {"oro_sale_quote", "oro_sale_quote_product",
   "oro_sale_quote_prod_request", "oro_sale_quote_prod_offer"}

\* Timestamp columns public.oro_sale_quote may or may not have; its id is
\* always there.  The product, request and offer tables, when they exist,
\* have their standard columns.
SqOptionalColumns == {"created_at", "updated_at"}

\* The source databases considered: at most one of the four tables missing
TableSets == {QuoteTables} \cup {QuoteTables \ {x} : x \in QuoteTables}

Catalogs ==
  {cat \in [tables : TableSets, sq_cols : SUBSET ({"id"} \cup SqOptionalColumns)] :
     IF "oro_sale_quote" \in cat.tables THEN "id" \in cat.sq_cols
     ELSE cat.sq_cols = {}}

NoCatalog == [tables |-> {}, sq_cols |-> {}]

\* pick(*cands): first candidate in the column set, else None
NoColumn == "None"

RECURSIVE pick(_, _)
pick(cols, cands) ==
  IF cands = <<>> THEN NoColumn
  ELSE IF Head(cands) \in cols THEN Head(cands)
  ELSE pick(cols, Tail(cands))

\* "a or b" on picked columns
or(a, b) == IF a # NoColumn THEN a ELSE b

NoQuery ==
  [raises |-> FALSE, slot |-> TRUE, c_id |-> NoColumn, c_created |-> NoColumn,
   c_updated |-> NoColumn, order_expr |-> NoColumn, joins |-> {}]

\* build_query_fact_cotizacion: the parts of the template the run depends
\* on (key and timestamp select items, order by, where slot)
build_query_fact_cotizacion(cat) ==
  LET c_id == pick(cat.sq_cols, <<"id">>)
      c_created == pick(cat.sq_cols, <<"created_at", "createdat">>)
      c_updated == pick(cat.sq_cols, <<"updated_at", "updatedat">>)
  IN [raises |-> "oro_sale_quote" \notin cat.tables,
      slot |-> TRUE,
      c_id |-> c_id, c_created |-> c_created, c_updated |-> c_updated,
      order_expr |-> or(c_updated, or(c_created, c_id)),
      joins |-> {}]

\* build_query_fact_cotizacion_linea.  It raises when the product table is
\* missing, and with UnboundLocalError when the offer join is built without
\* the request block having run (req_id is assigned only under has_req).
build_query_fact_cotizacion_linea(cat) ==
  LET has_req == "oro_sale_quote_prod_request" \in cat.tables
      has_off == "oro_sale_quote_prod_offer" \in cat.tables
      has_sq == "oro_sale_quote" \in cat.tables
      c_created == IF "created_at" \in cat.sq_cols THEN "created_at" ELSE NoColumn
      c_updated == IF "updated_at" \in cat.sq_cols THEN "updated_at" ELSE NoColumn
      has_ts == has_sq /\ or(c_updated, c_created) # NoColumn
  IN [raises |-> \/ "oro_sale_quote_product" \notin cat.tables
                 \/ (has_off /\ ~has_req),
      slot |-> has_ts,
      c_id |-> "id", c_created |-> c_created, c_updated |-> c_updated,
      order_expr |-> IF has_ts THEN or(c_updated, c_created) ELSE "id",
      joins |-> (IF has_req THEN {"req"} ELSE {})
                \cup (IF has_off THEN {"off"} ELSE {})
                \cup (IF has_ts THEN {"sq"} ELSE {})]

\* Columns of oro_sale_quote a predicate column expression names
ColumnsOf(column) ==
  IF column = "o.updated_at" THEN {"updated_at"}
  ELSE {"updated_at", "created_at"}

\* The database rejects the statement: an unresolved name in ORDER BY, the
\* sq join on a missing id, or a predicate on a column the table lacks.
\* The views build_facts reads always carry their columns.
SqlError(t, cat, q, where) ==
  IF t = "fact_cotizacion"
  THEN \/ q.order_expr = NoColumn
       \/ (where.used /\ ~(ColumnsOf(where.clause[1]) \subseteq cat.sq_cols))
  ELSE IF t = "fact_cotizacion_linea"
  THEN \/ ("sq" \in q.joins /\ "id" \notin cat.sq_cols)
       \/ (where.used /\ ~(ColumnsOf(where.clause[1]) \subseteq cat.sq_cols))
  ELSE FALSE

\* The frame row the select list makes of a source row
Project(t, q, r) ==
  IF t = "fact_ventas_linea"
  THEN [line_item_id |-> r.id, fecha_actualizacion_pedido |-> r.u,
        fecha_creacion_pedido |-> r.c]
  ELSE IF t = "fact_pago"
  THEN [transaction_id |-> r.id, updated_at |-> r.u, created_at |-> r.c]
  ELSE IF t = "fact_cotizacion"
  THEN [quote_id |-> IF q.c_id # NoColumn THEN r.id ELSE NULL,
        updated_at |-> IF q.c_updated # NoColumn THEN r.u ELSE NULL,
        created_at |-> IF q.c_created # NoColumn THEN r.c ELSE NULL]
  ELSE [quote_product_id |-> r.id]

\* read_sql_to_df on a statement the database accepts
read_sql_to_df(t, q, where, src) ==
  [columns |-> Range(Columns(t)),
   rows |-> {Project(t, q, r) : r \in {x \in src : Satisfies(x, where)}}]

\* Timestamps a source row can hold under a catalog: a column the quote
\* table lacks (or a quote table that is not joined) gives NULL
SourcesOf(t, cat, q) ==
  IF t \in {"fact_ventas_linea", "fact_pago"} THEN Sources
  ELSE {src \in Sources :
          \A r \in src :
            /\ ("updated_at" \notin cat.sq_cols \/ ~q.slot) => r.u = NULL
            /\ ("created_at" \notin cat.sq_cols \/ ~q.slot) => r.c = NULL}

\* mx = df[c].max() of max_timestamp: the instant the watermark string is
\* formatted from; None when max_timestamp returns None
RECURSIVE max_value(_, _)
max_value(df, cols) ==
  IF cols = <<>> THEN None
  ELSE IF Head(cols) \in df.columns /\ ~AllNa(df, Head(cols))
       THEN SetMax({r[Head(cols)] : r \in df.rows} \ {NULL})
       ELSE max_value(df, Tail(cols))

\* ------------------------------------------------------------------------
\* State
\* ------------------------------------------------------------------------
VARIABLES
  script,     \* the script whose runs this behaviour follows
  catalog,    \* tables and columns the source database has
  cfg,        \* module globals loaded from settings.yaml by the running process
  pc,         \* position of main(): idle, read, query, export, watermark, done, aborted
  idx,        \* index of the target section main() is in
  last_wm,    \* local last_wm of the section
  where,      \* where-clause and params of the section's statement
  query,      \* query template of the section
  src,        \* source rows the statement ran against (kept until export)
  df,         \* result frame of the section
  wmFile,     \* data/_state/<fact>.json, per target
  art,        \* parquet part-file and csv of the section's target
  cyc,        \* record of the section in progress or just finished
  attempted,  \* targets whose section this run has entered
  call        \* a single call of a helper function: its arguments and result

vars ==
  <<script, catalog, cfg, pc, idx, last_wm, where, query, src, df, wmFile, art,
    cyc, attempted, call>>

\* An artifact is missing, left by an earlier run (old), written by this
\* run from the section's sanitized frame (new), or cut short by a failed
\* write (partial)
ArtifactStates == {"missing", "old", "new", "partial"}
NoArtifacts == [parquet |-> "missing", csv |-> "missing"]

NoCycle ==
  [target |-> "none", status |-> "none", file0 |-> Absent, art0 |-> NoArtifacts,
   used |-> FALSE, queried |-> FALSE, rows |-> 0, src_ts |-> FALSE, exported |-> FALSE,
   wrote |-> FALSE, mx |-> None]

target == TargetsOf(script)[idx]

NoCall == [fn |-> "none"]

\* No process is running; nothing has been written yet
AtRest ==
  /\ cfg = NoSettings
  /\ pc = "idle"
  /\ idx = 1
  /\ last_wm = None
  /\ where = NoWhere
  /\ query = NoQuery
  /\ src = {}
  /\ df = NoFrame
  /\ wmFile = [t \in Targets |-> Absent]
  /\ art = NoArtifacts
  /\ cyc = NoCycle
  /\ attempted = {}

\* State before the first run of a script
InitRun ==
  /\ script \in Scripts
  /\ catalog \in (IF script = "build_quotes" THEN Catalogs ELSE {NoCatalog})
  /\ AtRest

Init == InitRun /\ call = NoCall

\* What the output directory holds for a target when its section starts:
\* nothing, or the files an earlier run left
PriorArtifacts == [parquet : {"missing", "old"}, csv : {"missing", "old"}]

\* A process starts: the module body loads settings.yaml, main() opens the
\* connection and arrives at the first target section
StartRun ==
  /\ pc \in {"idle", "done", "aborted"}
  /\ \E f \in SettingsFiles(script) : cfg' = LoadSettings(f)
  /\ pc' = "read"
  /\ idx' = 1
  /\ last_wm' = None
  /\ where' = NoWhere
  /\ query' = NoQuery
  /\ src' = {}
  /\ df' = NoFrame
  /\ art' = NoArtifacts
  /\ cyc' = NoCycle
  /\ attempted' = {}
  /\ UNCHANGED <<script, catalog, wmFile, call>>

\* Control leaves the section of the current target: the next section, or
\* the end of main()
NextSection ==
  /\ IF idx < Len(TargetsOf(script))
     THEN idx' = idx + 1 /\ pc' = "read"
     ELSE idx' = idx /\ pc' = "done"
  /\ last_wm' = None
  /\ where' = NoWhere
  /\ query' = NoQuery
  /\ src' = {}
  /\ df' = NoFrame

\* Head of a target section, up to the try: read_watermark, the query
\* builder (build_quotes) and build_where_incremental.  An exception here
\* is outside every try/except and ends main().
BeginSection ==
  /\ pc = "read"
  /\ script \in FactScripts
  /\ attempted' = attempted \cup {target}
  /\ \E prior \in PriorArtifacts :
     LET wm == read_watermark(wmFile, target)
         q == IF target = "fact_cotizacion"
              THEN build_query_fact_cotizacion(catalog)
              ELSE IF target = "fact_cotizacion_linea"
              THEN build_query_fact_cotizacion_linea(catalog)
              ELSE NoQuery
         w == IF q.slot
              THEN build_where_incremental(IncrColumn(target),
                                           incr_enabled(cfg, target), wm)
              ELSE NoWhere
         c == [NoCycle EXCEPT !.target = target, !.file0 = wmFile[target],
                              !.art0 = prior]
     IN /\ art' = prior
        /\ \/ /\ ~q.raises
              /\ pc' = "query"
              /\ last_wm' = wm
              /\ query' = q
              /\ where' = w
              /\ cyc' = [c EXCEPT !.status = "running", !.used = w.used]
           \/ /\ script = "build_quotes"
              \* RuntimeError of the builder, or a failed catalog query
              /\ pc' = "aborted"
              /\ cyc' = [c EXCEPT !.status = "build_failed"]
              /\ UNCHANGED <<last_wm, query, where>>
  /\ UNCHANGED <<script, catalog, cfg, idx, src, df, wmFile, call>>

\* The except branch also removes the state file of the target
QueryExecute_ClearsWatermark ==
  /\ pc = "query"
  /\ \/ /\ cyc' = [cyc EXCEPT !.status = "query_failed"]
        /\ wmFile' = [wmFile EXCEPT ![target] = Absent]
        /\ NextSection
     \/ /\ ~SqlError(target, catalog, query, where)
        /\ \E s \in SourcesOf(target, catalog, query) :
             /\ src' = s
             /\ df' = read_sql_to_df(target, query, where, s)
             /\ cyc' = [cyc EXCEPT
                          !.queried = TRUE,
                          !.rows = Cardinality({r \in s : Satisfies(r, where)}),
                          !.src_ts = \E r \in s : /\ Satisfies(r, where)
                                                  /\ (r.u # NULL \/ r.c # NULL)]
        /\ pc' = "export"
        /\ wmFile' = wmFile
        /\ UNCHANGED <<idx, last_wm, where, query>>
  /\ UNCHANGED <<script, catalog, cfg, art, attempted, call>>

\* read_sql_to_df inside the try: the statement fails, or returns the rows
\* of the source that satisfy the where-clause
QueryExecute ==
  /\ pc = "query"
  /\ \/ /\ cyc' = [cyc EXCEPT !.status = "query_failed"]
        /\ NextSection
     \/ /\ ~SqlError(target, catalog, query, where)
        /\ \E s \in SourcesOf(target, catalog, query) :
             /\ src' = s
             /\ df' = read_sql_to_df(target, query, where, s)
             /\ cyc' = [cyc EXCEPT
                          !.queried = TRUE,
                          !.rows = Cardinality({r \in s : Satisfies(r, where)}),
                          !.src_ts = \E r \in s : /\ Satisfies(r, where)
                                                  /\ (r.u # NULL \/ r.c # NULL)]
        /\ pc' = "export"
        /\ UNCHANGED <<idx, last_wm, where, query>>
  /\ UNCHANGED <<script, catalog, cfg, wmFile, art, attempted, call>>

\* ------------------------------------------------------------------------
\* Export
\* ------------------------------------------------------------------------
\* The empty frame is exported like any other
export_table_NoEmptyCheck(frame, a, c) ==
  {[a |-> [parquet |-> IF c.EXPORTAR_PARQUET THEN "new" ELSE a.parquet,
           csv |-> IF c.EXPORTAR_CSV THEN "new" ELSE a.csv],
    raises |-> FALSE]}

\* export_table(df, name) on the artifacts a of the target: the outcomes
\* [a, raises] it can have.  An empty frame returns at once.  Otherwise the
\* frame is sanitized, the part-file is unlinked and rewritten when parquet
\* export is on, then the csv is rewritten when csv export is on; any of
\* these steps can raise and leaves what the steps before it did.
export_table(frame, a, c) ==
  IF frame.rows = {} THEN {[a |-> a, raises |-> FALSE]}
  ELSE
    LET afterParquet == IF c.EXPORTAR_PARQUET THEN [a EXCEPT !.parquet = "new"] ELSE a
        done == IF c.EXPORTAR_CSV THEN [afterParquet EXCEPT !.csv = "new"]
                ELSE afterParquet
    IN  {[a |-> done, raises |-> FALSE]}
        \* sanitize_dataframe, mkdir or unlink raised
        \cup {[a |-> a, raises |-> TRUE]}
        \* to_parquet raised after the unlink
        \cup (IF c.EXPORTAR_PARQUET
              THEN {[a |-> [a EXCEPT !.parquet = p], raises |-> TRUE] :
                      p \in {"missing", "partial"}}
              ELSE {})
        \* to_csv raised: the csv was not opened, or was truncated
        \cup (IF c.EXPORTAR_CSV
              THEN {[a |-> [afterParquet EXCEPT !.csv = v], raises |-> TRUE] :
                      v \in {a.csv, "partial"}}
              ELSE {})

\* The watermark is computed and written before the export is attempted
ExportTable_WritesFirst ==
  /\ pc = "export"
  /\ LET wm == max_timestamp(df, TsCols(target))
         writes == wm # None /\ incr_enabled(cfg, target)
     IN /\ wmFile' = IF writes THEN write_watermark(wmFile, target, wm) ELSE wmFile
        /\ \E o \in export_table(df, art, cfg) :
             /\ art' = o.a
             /\ IF o.raises
                THEN /\ cyc' = [cyc EXCEPT !.status = "export_failed", !.wrote = writes]
                     /\ NextSection
                ELSE /\ cyc' = [cyc EXCEPT !.exported = TRUE, !.wrote = writes]
                     /\ pc' = "watermark"
                     /\ src' = {}
                     /\ UNCHANGED <<idx, last_wm, where, query, df>>
  /\ UNCHANGED <<script, catalog, cfg, attempted, call>>

\* build_dimensions.export_dimension: as export_table, without the unlink
\* (to_parquet overwrites the part-file in place)
export_dimension(frame, a, c) ==
  IF frame.rows = {} THEN {[a |-> a, raises |-> FALSE]}
  ELSE
    LET afterParquet == IF c.EXPORTAR_PARQUET THEN [a EXCEPT !.parquet = "new"] ELSE a
        done == IF c.EXPORTAR_CSV THEN [afterParquet EXCEPT !.csv = "new"]
                ELSE afterParquet
    IN  {[a |-> done, raises |-> FALSE]}
        \cup {[a |-> a, raises |-> TRUE]}
        \cup (IF c.EXPORTAR_PARQUET
              THEN {[a |-> [a EXCEPT !.parquet = "partial"], raises |-> TRUE]}
              ELSE {})
        \cup (IF c.EXPORTAR_CSV
              THEN {[a |-> [afterParquet EXCEPT !.csv = "partial"], raises |-> TRUE]}
              ELSE {})

\* build_all_dimensions.save_dimension: parquet, then csv, whatever the
\* settings and the frame
save_dimension(frame, a) ==
  {[a |-> [parquet |-> "new", csv |-> "new"], raises |-> FALSE],
   [a |-> [a EXCEPT !.parquet = "partial"], raises |-> TRUE],
   [a |-> [parquet |-> "new", csv |-> "partial"], raises |-> TRUE]}

\* The frames of a dimension, as far as the exporters look: empty or not
DimFrames ==
  {[columns |-> {"id"}, rows |-> {}], [columns |-> {"id"}, rows |-> {[id |-> 1]}]}

\* One dimension of build_dimensions.main (fetch_dataframe and
\* export_dimension in a try of its own: an exception is logged and the loop
\* continues) or of build_all_dimensions.main (a build_dim_* call inside
\* the single try around all of them: an exception ends main)
DimSection ==
  /\ pc = "read"
  /\ script \notin FactScripts
  /\ attempted' = attempted \cup {target}
  /\ \E prior \in PriorArtifacts :
     \E o \in {[a |-> prior, raises |-> TRUE]}
              \cup UNION {IF script = "build_dimensions"
                          THEN export_dimension(f, prior, cfg)
                          ELSE save_dimension(f, prior) : f \in DimFrames} :
       /\ art' = o.a
       /\ cyc' = [NoCycle EXCEPT !.target = target, !.art0 = prior,
                                 !.status = IF o.raises THEN "failed" ELSE "ok"]
       /\ IF o.raises /\ script = "build_all_dimensions"
          THEN /\ pc' = "aborted"
               /\ UNCHANGED <<idx, last_wm, where, query, src, df>>
          ELSE NextSection
  /\ UNCHANGED <<script, catalog, cfg, wmFile, call>>

\* export_table inside the try
ExportTable ==
  /\ pc = "export"
  /\ \E o \in export_table(df, art, cfg) :
       /\ art' = o.a
       /\ IF o.raises
          THEN /\ cyc' = [cyc EXCEPT !.status = "export_failed"]
               /\ NextSection
          ELSE /\ cyc' = [cyc EXCEPT !.exported = TRUE]
               /\ pc' = "watermark"
               /\ src' = {}
               /\ UNCHANGED <<idx, last_wm, where, query, df>>
  /\ UNCHANGED <<script, catalog, cfg, wmFile, attempted, call>>

\* wm = max_timestamp(df, cols); if wm and incr_enabled: write_watermark
WatermarkStep ==
  /\ pc = "watermark"
  /\ LET wm == max_timestamp(df, TsCols(target))
         mx == max_value(df, TsCols(target))
     IN IF wm # None /\ incr_enabled(cfg, target)
        THEN \/ /\ wmFile' = write_watermark(wmFile, target, wm)
                /\ cyc' = [cyc EXCEPT !.status = "ok", !.wrote = TRUE, !.mx = mx]
             \/ /\ wmFile' \in write_watermark_raises(wmFile, target)
                /\ cyc' = [cyc EXCEPT !.status = "write_failed", !.wrote = TRUE,
                                      !.mx = mx]
        ELSE /\ wmFile' = wmFile
             /\ cyc' = [cyc EXCEPT !.status = "ok"]
  /\ NextSection
  /\ UNCHANGED <<script, catalog, cfg, art, attempted, call>>

Next ==
  \/ StartRun
  \/ BeginSection
  \/ DimSection
  \/ QueryExecute
  \/ ExportTable
  \/ WatermarkStep

Spec == Init /\ [][Next]_vars

\* ------------------------------------------------------------------------
\* max_timestamp on its own: one call on any small frame
\* ------------------------------------------------------------------------
\* Frames whose timestamp columns are any subset of updated_at, created_at,
\* with at most MaxRows distinct rows
TsFrames ==
  UNION {{[columns |-> cs, rows |-> {f[i] : i \in 1..n}] :
            f \in [1..n -> [cs -> TsOrNull]]} :
         cs \in SUBSET {"updated_at", "created_at"}, n \in 0..MaxRows}

InitMaxTimestamp ==
  /\ script = "build_facts"
  /\ catalog = NoCatalog
  /\ AtRest
  /\ call \in {[fn |-> "max_timestamp", df |-> f,
                 cols |-> <<"updated_at", "created_at">>,
                 done |-> FALSE, ret |-> None] : f \in TsFrames}

CallMaxTimestamp ==
  /\ call.fn = "max_timestamp"
  /\ ~call.done
  /\ call' = [call EXCEPT !.done = TRUE, !.ret = max_timestamp(call.df, call.cols)]
  /\ UNCHANGED <<script, catalog, cfg, pc, idx, last_wm, where, query, src, df,
                 wmFile, art, cyc, attempted>>

NextMaxTimestamp == CallMaxTimestamp

SpecMaxTimestamp == InitMaxTimestamp /\ [][NextMaxTimestamp]_vars

\* ------------------------------------------------------------------------
\* Properties
\* ------------------------------------------------------------------------
FailedBeforeWrite == {"build_failed", "query_failed", "export_failed"}

\* The incremental timestamp of a source row of the section's target
IncrTs(r) == EvalColumn(IncrColumn(target), r)

\* C1: write_watermark is invoked for a target only after export_table for
\* that target returned without raising in the same section; the state file
\* of the section's target differs from what it was at the section's start
\* only after such an export, and never in a section whose query or export
\* raised.
C1_WatermarkOnlyAfterExport ==
  /\ cyc.wrote => (cyc.exported /\ cyc.status \notin FailedBeforeWrite)
  /\ (cyc.target \in Targets /\ wmFile[cyc.target] # cyc.file0)
       => (cyc.wrote /\ cyc.exported /\ cyc.status \notin FailedBeforeWrite)

\* A section that exported and then wrote its watermark
C1_Witness ==
  /\ cyc.wrote
  /\ cyc.status = "ok"
  /\ wmFile[cyc.target] # cyc.file0

\* C2: whenever a step replaces a stored watermark w1 of a target by a
\* stored watermark w2, w2 >= w1.
C2_WatermarkMonotonic ==
  [][\A t \in Targets :
       (wmFile[t].kind = "json" /\ wmFile'[t].kind = "json")
         => wmFile'[t].watermark >= wmFile[t].watermark]_vars

\* An incremental run that moved a stored watermark strictly forward
C2_Witness ==
  /\ cyc.wrote
  /\ cyc.used
  /\ cyc.file0.kind = "json"
  /\ wmFile[cyc.target].kind = "json"
  /\ wmFile[cyc.target].watermark > cyc.file0.watermark

\* C3: in a run of an incremental-enabled target whose statement returned,
\* every source row whose incremental timestamp is strictly greater than
\* the watermark committed at the start of the section is in the frame.
C3_NoSilentGaps ==
  (pc = "export" /\ incr_enabled(cfg, target) /\ cyc.file0.kind = "json")
    => \A r \in src :
         (IncrTs(r) # NULL /\ IncrTs(r) > cyc.file0.watermark)
           => Project(target, query, r) \in df.rows

\* An incremental query that kept a row above the watermark and dropped one
\* that is not, with the row above the watermark inside the watermark's
\* second or later
C3_Witness ==
  /\ pc = "export"
  /\ where.used
  /\ \E r \in src : IncrTs(r) # NULL /\ IncrTs(r) > cyc.file0.watermark
  /\ \E r \in src : Project(target, query, r) \notin df.rows

\* C4: when the query or export_table (sanitization included) of a target
\* raises, the target's state file is as it was when the section started.
C4_FailureKeepsWatermark ==
  cyc.status \in {"query_failed", "export_failed"}
    => wmFile[cyc.target] = cyc.file0

\* An export that raised on a frame with timestamps, for an incremental
\* target that had a watermark
C4_Witness ==
  /\ cyc.status = "export_failed"
  /\ cyc.src_ts
  /\ incr_enabled(cfg, cyc.target)
  /\ cyc.file0.kind = "json"

\* C5: a failure in one target's section (building the query, executing
\* it, sanitizing, exporting) aborts only that section: when main() ends,
\* every target of the script has been attempted.
C5_LaterTargetsAttempted ==
  pc \in {"done", "aborted"} => attempted = Range(TargetsOf(script))

\* C6: build_where_incremental yields `<column> > %(wm)s` bound to the last
\* watermark exactly when incremental is enabled and a watermark is stored,
\* and an empty clause without parameters otherwise; with the predicate, no
\* row exactly at the watermark is in the frame.
C6_WherePredicate ==
  (pc \in {"query", "export", "watermark"} /\ query.slot) =>
    LET present == cyc.file0.kind = "json" IN
    /\ where.used <=> (incr_enabled(cfg, target) /\ present)
    /\ where.used => /\ where.clause = <<IncrColumn(target), ">", "%(wm)s">>
                     /\ where.params = cyc.file0.watermark
    /\ ~where.used => (where.clause = <<>> /\ where.params = None)
    /\ (pc = "export" /\ where.used) =>
         \A r \in src : IncrTs(r) = where.params
                          => Project(target, query, r) \notin df.rows

\* An incremental query over a source with a row exactly at the watermark
C6_Witness ==
  /\ pc = "export"
  /\ where.used
  /\ \E r \in src : IncrTs(r) = where.params

\* A full-load query of a target whose incremental flag is off while a
\* watermark is stored
C6_WitnessDisabled ==
  /\ pc = "export"
  /\ ~incr_enabled(cfg, target)
  /\ cyc.file0.kind = "json"
  /\ src # {}

\* C7: for an incremental-enabled target without a watermark, a successful
\* full-load section that returned a row with a non-null source timestamp
\* ends with a watermark stored for the target.
C7_Bootstrap ==
  ( /\ cyc.status = "ok"
    /\ incr_enabled(cfg, cyc.target)
    /\ cyc.file0 = Absent
    /\ ~cyc.used
    /\ cyc.src_ts )
    => wmFile[cyc.target].kind = "json"

\* C8: a section whose statement returned zero rows leaves the target's
\* artifacts and its state file as they were when the section started, and
\* is no failure.
C8_EmptyResultNoOp ==
  (cyc.queried /\ cyc.rows = 0)
    => /\ art = cyc.art0
       /\ wmFile[cyc.target] = cyc.file0
       /\ cyc.status \in {"running", "ok"}

\* A finished empty incremental section over existing artifacts and a
\* stored watermark
C8_Witness ==
  /\ cyc.queried
  /\ cyc.rows = 0
  /\ cyc.status = "ok"
  /\ incr_enabled(cfg, cyc.target)
  /\ cyc.art0.parquet = "old"
  /\ cyc.file0.kind = "json"

\* C10: a step changes the state file of no target but the one whose
\* watermark step it is, whether write_watermark returns, raises or is
\* skipped.
C10_RecordsIndependent ==
  [][\A t \in Targets :
       wmFile'[t] # wmFile[t] => (pc = "watermark" /\ t = target)]_vars

\* A watermark write that raised and damaged its own file while another
\* target's record is stored
C10_Witness ==
  /\ cyc.status = "write_failed"
  /\ wmFile[cyc.target] = Corrupt
  /\ \E t \in Targets : t # cyc.target /\ wmFile[t].kind = "json"

\* The non-null cells of column c of a frame
Cells(frame, c) ==
  IF c \in frame.columns THEN {r[c] : r \in frame.rows} \ {NULL} ELSE {}

\* v is the watermark string of the greatest instant of S: a whole second,
\* not after that instant and less than a second before it
IsSecondOfMax(v, S) ==
  /\ v # None
  /\ v % Sub = 0
  /\ \E m \in S : /\ \A x \in S : x <= m
                  /\ v <= m
                  /\ m < v + Sub

\* C9: max_timestamp(df, [primary, secondary]) returns the maximum of the
\* primary column (as a watermark string) when that column has a non-null
\* value, the maximum of the secondary column when the primary is absent or
\* all null, and None when the frame is empty or both columns are absent
\* or all null.
C9_MaxTimestamp ==
  (call.fn = "max_timestamp" /\ call.done) =>
    LET primary == Cells(call.df, call.cols[1])
        secondary == Cells(call.df, call.cols[2])
    IN IF primary # {} THEN IsSecondOfMax(call.ret, primary)
       ELSE IF secondary # {} THEN IsSecondOfMax(call.ret, secondary)
       ELSE call.ret = None

\* A call that fell back to the secondary column of a frame whose primary
\* column is there but all null, with two different secondary values
C9_Witness ==
  /\ call.fn = "max_timestamp"
  /\ call.done
  /\ "updated_at" \in call.df.columns
  /\ Cells(call.df, "updated_at") = {}
  /\ Cardinality(Cells(call.df, "created_at")) = 2
  /\ call.ret # None


\* ------------------------------------------------------------------------
\* The watermark store on its own: reads and writes of the state files
\* ------------------------------------------------------------------------
\* Text of a state file as a sequence of JSON tokens.  v carries the second
\* of a string token "%Y-%m-%d %H:%M:%S"; every other token has v = None.
Tok(k) == [k |-> k, v |-> None]
Str(w) == [k |-> "str", v |-> w]

\* json.dumps({"watermark": wm}, ensure_ascii=False, indent=2)
json_dumps(wm) ==
  <<Tok("{"), Tok("ws"), Tok("\"watermark\""), Tok(":"), Tok("ws"), Str(wm),
    Tok("ws"), Tok("}")>>

NotWs(x) == x.k # "ws"

\* json.loads(text): the value parsed, or raises.  type is dict, list or
\* str; has tells whether a dict has the key "watermark", value is its value.
json_loads(text) ==
  LET t == SelectSeq(text, NotWs)
      bad == [raises |-> TRUE, type |-> "none", has |-> FALSE, value |-> None]
      val(ty, h, v) == [raises |-> FALSE, type |-> ty, has |-> h, value |-> v]
  IN  IF Len(t) = 5 /\ t[1].k = "{" /\ t[2].k = "\"watermark\"" /\ t[3].k = ":"
         /\ t[4].k \in {"str", "null"} /\ t[5].k = "}"
      THEN val("dict", TRUE, t[4].v)
      ELSE IF Len(t) = 2 /\ t[1].k = "{" /\ t[2].k = "}" THEN val("dict", FALSE, None)
      ELSE IF Len(t) = 2 /\ t[1].k = "[" /\ t[2].k = "]" THEN val("list", FALSE, None)
      ELSE IF Len(t) = 1 /\ t[1].k = "str" THEN val("str", FALSE, None)
      ELSE bad

\* A path of the state directory: whether the file exists, whether the
\* process may open it, and its text
NoFile == [exists |-> FALSE, perm |-> TRUE, text |-> <<>>]
TextFile(txt) == [exists |-> TRUE, perm |-> TRUE, text |-> txt]

\* Texts no write_watermark produced: empty, cut short, a dict without the
\* key, a null watermark, a list, a bare string
ForeignTexts ==
  {<<>>,
   <<Tok("{"), Tok("ws"), Tok("\"watermark\""), Tok(":")>>,
   <<Tok("{"), Tok("}")>>,
   <<Tok("{"), Tok("\"watermark\""), Tok(":"), Tok("null"), Tok("}")>>,
   <<Tok("["), Tok("]")>>,
   <<Str(0)>>}

\* State files that exist before any write_watermark of the target
ForeignFiles ==
  {NoFile} \cup {TextFile(x) : x \in ForeignTexts}
  \cup {[exists |-> TRUE, perm |-> FALSE, text |-> <<>>]}

\* read_watermark(fact_name) on the file p of the target: None when the
\* path does not exist; read_text, json.loads and data.get run inside the
\* try, and every exception gives None
read_watermark_path(p) ==
  IF ~p.exists THEN None
  ELSE IF ~p.perm THEN None
  ELSE LET data == json_loads(p.text)
       IN  IF data.raises THEN None
           ELSE IF data.type # "dict" THEN None
           ELSE IF data.has THEN data.value ELSE None

\* The round trip the abstract state file Json(w) stands for
FileOf(p) ==
  LET w == read_watermark_path(p)
  IN  IF ~p.exists THEN Absent ELSE IF w = None THEN Corrupt ELSE Json(w)

\* Path.write_text(text): the outcomes [p, raises].  open(.., "w") raises on
\* a file the process may not open; otherwise it truncates the file, and
\* the write or the close that follows can still raise.
write_text(p, text) ==
  IF p.exists /\ ~p.perm THEN {[p |-> p, raises |-> TRUE]}
  ELSE {[p |-> TextFile(text), raises |-> FALSE],
        [p |-> p, raises |-> TRUE],
        [p |-> TextFile(<<>>), raises |-> TRUE]}

StoreTargets == Range(TargetsOf("build_facts"))

\* The state directory before the first write, with no call made yet.
\* last is the value of the most recent completed write_watermark per target.
InitWatermarkStore ==
  /\ script = "build_facts"
  /\ catalog = NoCatalog
  /\ AtRest
  /\ call \in {[fn |-> "watermark_store", files |-> fs,
                 last |-> [t \in StoreTargets |-> None],
                 op |-> "none", target |-> "none", raised |-> FALSE, ret |-> None] :
               fs \in [StoreTargets -> ForeignFiles]}

\* write_watermark(fact_name, wm)
CallWriteWatermark ==
  /\ call.fn = "watermark_store"
  /\ \E t \in StoreTargets, wm \in Seconds :
       \E o \in write_text(call.files[t], json_dumps(wm)) :
         call' = [call EXCEPT !.files[t] = o.p,
                              !.last[t] = IF o.raises THEN @ ELSE wm,
                              !.op = "write", !.target = t,
                              !.raised = o.raises, !.ret = None]
  /\ UNCHANGED <<script, catalog, cfg, pc, idx, last_wm, where, query, src, df,
                 wmFile, art, cyc, attempted>>

\* read_watermark(fact_name)
CallReadWatermark ==
  /\ call.fn = "watermark_store"
  /\ \E t \in StoreTargets :
       call' = [call EXCEPT !.op = "read", !.target = t, !.raised = FALSE,
                            !.ret = read_watermark_path(call.files[t])]
  /\ UNCHANGED <<script, catalog, cfg, pc, idx, last_wm, where, query, src, df,
                 wmFile, art, cyc, attempted>>

NextWatermarkStore == CallWriteWatermark \/ CallReadWatermark

SpecWatermarkStore == InitWatermarkStore /\ [][NextWatermarkStore]_vars

\* C11: read_watermark(target) returns the value given to the most recent
\* completed write_watermark of that target, and None when none was ever
\* written; it never raises.
C11_ReadReturnsLastWrite ==
  (call.fn = "watermark_store" /\ call.op = "read") =>
    /\ ~call.raised
    /\ call.ret = call.last[call.target]

\* The same when the latest write_watermark of the target did not raise
\* part-way: what the code guarantees
C11_ReadAfterCompletedWrite ==
  (call.fn = "watermark_store" /\ call.op = "read"
   /\ FileOf(call.files[call.target]) # Corrupt) =>
    /\ ~call.raised
    /\ call.ret = call.last[call.target]

\* ------------------------------------------------------------------------
\* Cell values and to_json_string
\* ------------------------------------------------------------------------
MaxItems == 2

\* A Python object in a cell: ty is its type, v identifies an int or a str,
\* items are the members of a list or tuple and the entries of a dict.
\* An entry holds its key and its value.
PyInt(n) == [ty |-> "int", v |-> n, items |-> <<>>]
PyStr(s) == [ty |-> "str", v |-> s, items |-> <<>>]
PyNone == [ty |-> "none", v |-> 0, items |-> <<>>]
\* a value json.dumps has no encoding for (Decimal, datetime, ...)
PyObj == [ty |-> "object", v |-> 0, items |-> <<>>]
PyList(xs) == [ty |-> "list", v |-> 0, items |-> xs]
PyTuple(xs) == [ty |-> "tuple", v |-> 0, items |-> xs]
PyDict(es) == [ty |-> "dict", v |-> 0, items |-> es]
Entry(k, x) == [ty |-> "entry", v |-> 0, items |-> <<k, x>>]

\* A JSON document: number, string, null, array, object with string keys
JNum(n) == [ty |-> "jnum", v |-> n, items |-> <<>>]
JStr(s) == [ty |-> "jstr", v |-> s, items |-> <<>>]
JNull == [ty |-> "jnull", v |-> 0, items |-> <<>>]
JArr(xs) == [ty |-> "jarr", v |-> 0, items |-> xs]
JObj(es) == [ty |-> "jobj", v |-> 0, items |-> es]

\* A str cell holding the text of the JSON document j
PyText(j) == [ty |-> "text", v |-> 0, items |-> <<j>>]
\* A str cell holding str(x)
PyRepr(x) == [ty |-> "repr", v |-> 0, items |-> <<x>>]

\* The str a non-str dict key is written as: str(n) of an int key, "null"
StrOfInt(n) == 100 + n
StrOfNone == 99

\* isinstance(x, (dict, list, tuple))
IsComposite(x) == x.ty \in {"dict", "list", "tuple"}

Atoms == {PyInt(1), PyStr(1), PyNone, PyObj}
DictKeys == {PyStr(1), PyInt(1)}

SeqsUpTo(S, n) == UNION {[1..k -> S] : k \in 0..n}

\* Dicts over a set of keys, entries in insertion order
DictsOver(S) ==
  {PyDict(<<>>)}
  \cup {PyDict(<<Entry(k, x)>>) : k \in DictKeys, x \in S}
  \cup {PyDict(<<Entry(PyStr(1), x), Entry(PyInt(1), y)>>) : x \in S, y \in S}

\* Composite values of depth one, and of depth two with one nested member
Flat ==
  {PyList(xs) : xs \in SeqsUpTo(Atoms, MaxItems)}
  \cup {PyTuple(xs) : xs \in SeqsUpTo(Atoms, MaxItems)}
  \cup DictsOver(Atoms)
Nested ==
  {PyList(<<x>>) : x \in Flat} \cup {PyTuple(<<x>>) : x \in Flat}
  \cup {PyDict(<<Entry(PyStr(1), PyInt(1)), Entry(PyStr(2), x)>>) : x \in Flat}
  \cup {PyDict(<<Entry(PyTuple(<<PyInt(1)>>), PyInt(1))>>)}
Composites == Flat \cup Nested
CellValues == Atoms \cup Composites

\* Whether json.dumps(x) returns: every member has an encoding and every
\* dict key is a str, int or None
RECURSIVE Serializable(_)
Serializable(x) ==
  CASE x.ty \in {"int", "str", "none"} -> TRUE
    [] x.ty \in {"list", "tuple"} -> \A i \in DOMAIN x.items : Serializable(x.items[i])
    [] x.ty = "dict" ->
         \A i \in DOMAIN x.items :
           /\ x.items[i].items[1].ty \in {"str", "int", "none"}
           /\ Serializable(x.items[i].items[2])
    [] OTHER -> FALSE

\* The key of a JSON object an entry key is written as
KeyString(k) ==
  CASE k.ty = "str" -> JStr(k.v)
    [] k.ty = "int" -> JStr(StrOfInt(k.v))
    [] OTHER -> JStr(StrOfNone)

\* json.dumps(x, ensure_ascii=False) of a serializable x: list and tuple
\* both become an array, dict keys become strings
RECURSIVE dumps(_)
dumps(x) ==
  CASE x.ty = "int" -> JNum(x.v)
    [] x.ty = "str" -> JStr(x.v)
    [] x.ty = "none" -> JNull
    [] x.ty \in {"list", "tuple"} -> JArr([i \in DOMAIN x.items |-> dumps(x.items[i])])
    [] x.ty = "dict" ->
         JObj([i \in DOMAIN x.items |->
                 Entry(KeyString(x.items[i].items[1]), dumps(x.items[i].items[2]))])
    [] OTHER -> JNull

\* json.loads of the text of a document: array to list, object to dict
RECURSIVE loads(_)
loads(j) ==
  CASE j.ty = "jnum" -> PyInt(j.v)
    [] j.ty = "jstr" -> PyStr(j.v)
    [] j.ty = "jnull" -> PyNone
    [] j.ty = "jarr" -> PyList([i \in DOMAIN j.items |-> loads(j.items[i])])
    [] j.ty = "jobj" ->
         PyDict([i \in DOMAIN j.items |->
                   Entry(PyStr(j.items[i].items[1].v), loads(j.items[i].items[2]))])
    [] OTHER -> PyNone

\* to_json_string without the except branch
to_json_string_NoFallback(x) ==
  IF IsComposite(x)
  THEN IF Serializable(x) THEN [raises |-> FALSE, value |-> PyText(dumps(x))]
       ELSE [raises |-> TRUE, value |-> x]
  ELSE [raises |-> FALSE, value |-> x]

\* to_json_string(x): the text of json.dumps(x) for a dict, list or tuple,
\* str(x) when json.dumps raises, x itself otherwise
to_json_string(x) ==
  IF IsComposite(x)
  THEN IF Serializable(x) THEN [raises |-> FALSE, value |-> PyText(dumps(x))]
       ELSE [raises |-> FALSE, value |-> PyRepr(x)]
  ELSE [raises |-> FALSE, value |-> x]

\* One call of to_json_string on any cell value
InitToJsonString ==
  /\ script = "build_facts"
  /\ catalog = NoCatalog
  /\ AtRest
  /\ call \in {[fn |-> "to_json_string", x |-> x, done |-> FALSE, raises |-> FALSE,
                 ret |-> PyNone] : x \in CellValues}

CallToJsonString ==
  /\ call.fn = "to_json_string"
  /\ ~call.done
  /\ LET r == to_json_string(call.x)
     IN  call' = [call EXCEPT !.done = TRUE, !.raises = r.raises, !.ret = r.value]
  /\ UNCHANGED <<script, catalog, cfg, pc, idx, last_wm, where, query, src, df,
                 wmFile, art, cyc, attempted>>

SpecToJsonString == InitToJsonString /\ [][CallToJsonString]_vars

\* C18: every composite value to_json_string serializes is reconstructed
\* exactly by parsing the produced text back.
C18_RoundTrip ==
  (call.fn = "to_json_string" /\ call.done /\ IsComposite(call.x)
   /\ call.ret.ty = "text") =>
    loads(call.ret.items[1]) = call.x

\* C19: when json.dumps of a composite cell raises, to_json_string returns
\* the string str(x) and does not raise.
C19_FallbackString ==
  (call.fn = "to_json_string" /\ call.done /\ IsComposite(call.x)
   /\ ~Serializable(call.x)) =>
    /\ ~call.raises
    /\ call.ret = PyRepr(call.x)

C19_Witness ==
  /\ call.fn = "to_json_string" /\ call.done
  /\ call.x = PyList(<<PyInt(1), PyObj>>)
  /\ call.ret.ty = "repr"

\* Values built from dicts with str keys, lists, ints, strs and None only
RECURSIVE JsonShaped(_)
JsonShaped(x) ==
  CASE x.ty \in {"int", "str", "none"} -> TRUE
    [] x.ty = "list" -> \A i \in DOMAIN x.items : JsonShaped(x.items[i])
    [] x.ty = "dict" ->
         \A i \in DOMAIN x.items :
           /\ x.items[i].items[1].ty = "str"
           /\ JsonShaped(x.items[i].items[2])
    [] OTHER -> FALSE

\* The round trip the code does give: values without tuples and without
\* non-str keys come back as they were
C18_RoundTripOfJsonShaped ==
  (call.fn = "to_json_string" /\ call.done /\ IsComposite(call.x)
   /\ JsonShaped(call.x)) =>
    /\ call.ret.ty = "text"
    /\ loads(call.ret.items[1]) = call.x

\* ------------------------------------------------------------------------
\* sanitize_dataframe
\* ------------------------------------------------------------------------
\* head(10): the number of non-null values sampled per column
SampleSize == 10
\* Longest column of the frames sanitized here
MaxCells == 12

\* Cells a column holds besides plain ints: a null, a list, and a tuple
\* json.dumps raises on
SpecialCells == {PyNone, PyList(<<PyInt(1)>>), PyTuple(<<PyObj>>)}

\* Columns of n cells, ints except at up to two positions
ColumnsOfLen(n) ==
  {[i \in 1..n |-> PyInt(1)]}
  \cup {[i \in 1..n |-> IF i = p THEN x ELSE PyInt(1)] :
          p \in 1..n, x \in SpecialCells}
  \cup {[i \in 1..n |-> IF i = p THEN x ELSE IF i = q THEN y ELSE PyInt(1)] :
          <<p, q>> \in {pq \in (1..n) \X (1..n) : pq[1] < pq[2]},
          <<x, y>> \in SpecialCells \X SpecialCells}

\* A second column next to it: ints only, or a dict in its first row
SideColumns(n) ==
  {[i \in 1..n |-> PyInt(1)],
   [i \in 1..n |-> IF i = 1 THEN PyDict(<<Entry(PyStr(1), PyInt(1))>>) ELSE PyInt(1)]}

\* A frame is its columns in order, each with a name and its cells by row
SanitizeFrames ==
  UNION {{<<[name |-> "a", cells |-> c], [name |-> "b", cells |-> d]>> :
            c \in ColumnsOfLen(n), d \in SideColumns(n)} : n \in 0..MaxCells}

\* pandas isna on an object cell
IsNull(x) == x.ty = "none"
NotNull(x) == ~IsNull(x)

\* df[col].dtype == "object": the column holds something else than ints
IsObjectDtype(cells) == \E i \in DOMAIN cells : cells[i].ty # "int"

\* df[col].dropna().head(10).tolist()
Sample(cells) ==
  LET nn == SelectSeq(cells, NotNull)
  IN  SubSeq(nn, 1, IF Len(nn) < SampleSize THEN Len(nn) ELSE SampleSize)

\* sanitize_dataframe that looks at every cell of the column
sanitize_dataframe_FullScan(frame) ==
  [raises |-> FALSE,
   df |-> [c \in DOMAIN frame |->
             IF \E i \in DOMAIN frame[c].cells : IsComposite(frame[c].cells[i])
             THEN [frame[c] EXCEPT !.cells =
                     [i \in DOMAIN @ |-> to_json_string(@[i]).value]]
             ELSE frame[c]]]

\* sanitize_dataframe(df): an object column whose sample holds a dict, list
\* or tuple is mapped through to_json_string, cell by cell; raises when a
\* call of to_json_string does
sanitize_dataframe(frame) ==
  LET rewrite(c) ==
        /\ IsObjectDtype(frame[c].cells)
        /\ \E k \in DOMAIN Sample(frame[c].cells) : IsComposite(Sample(frame[c].cells)[k])
  IN  [raises |-> \E c \in DOMAIN frame : rewrite(c) /\
                    \E i \in DOMAIN frame[c].cells : to_json_string(frame[c].cells[i]).raises,
       df |-> [c \in DOMAIN frame |->
                 IF rewrite(c)
                 THEN [frame[c] EXCEPT !.cells =
                         [i \in DOMAIN @ |-> to_json_string(@[i]).value]]
                 ELSE frame[c]]]

InitSanitize ==
  /\ script = "build_facts"
  /\ catalog = NoCatalog
  /\ AtRest
  /\ call \in {[fn |-> "sanitize_dataframe", df |-> f, done |-> FALSE,
                 raises |-> FALSE, ret |-> <<>>] : f \in SanitizeFrames}

CallSanitize ==
  /\ call.fn = "sanitize_dataframe"
  /\ ~call.done
  /\ LET r == sanitize_dataframe(call.df)
     IN  call' = [call EXCEPT !.done = TRUE, !.raises = r.raises, !.ret = r.df]
  /\ UNCHANGED <<script, catalog, cfg, pc, idx, last_wm, where, query, src, df,
                 wmFile, art, cyc, attempted>>

SpecSanitize == InitSanitize /\ [][CallSanitize]_vars

\* Some composite cell of the column has fewer than SampleSize non-null
\* cells above it
CompositeInFirstNonNull(cells) ==
  \E i \in DOMAIN cells :
    /\ IsComposite(cells[i])
    /\ Cardinality({j \in 1..(i - 1) : ~IsNull(cells[j])}) < SampleSize

\* C16: a column is rewritten exactly when one of its first 10 non-null
\* values is a dict, list or tuple; in a rewritten column every composite
\* cell becomes its text and every other cell is unchanged; other columns,
\* the row count and the column order are unchanged.
C16_SanitizeRewrites ==
  (call.fn = "sanitize_dataframe" /\ call.done) =>
    /\ ~call.raises
    /\ DOMAIN call.ret = DOMAIN call.df
    /\ \A c \in DOMAIN call.df :
         /\ call.ret[c].name = call.df[c].name
         /\ Len(call.ret[c].cells) = Len(call.df[c].cells)
         /\ \A i \in DOMAIN call.df[c].cells :
              LET x == call.df[c].cells[i]
                  y == call.ret[c].cells[i]
              IN  IF CompositeInFirstNonNull(call.df[c].cells) /\ IsComposite(x)
                  THEN y = (IF Serializable(x) THEN PyText(dumps(x)) ELSE PyRepr(x))
                  ELSE y = x

\* A column with a list in its first row and a tuple json.dumps raises on
\* in its last row, beyond the sample: both were rewritten, the ints between
\* them and the other column's ints were not
C16_Witness ==
  /\ call.fn = "sanitize_dataframe" /\ call.done
  /\ Len(call.df[1].cells) = MaxCells
  /\ call.df[1].cells[1].ty = "list"
  /\ call.df[1].cells[MaxCells].ty = "tuple"
  /\ call.ret[1].cells[1].ty = "text"
  /\ call.ret[1].cells[MaxCells].ty = "repr"
  /\ call.ret[1].cells[2] = PyInt(1)
  /\ call.ret[2].cells[1].ty = "text"

\* A column whose only composite cell lies beyond the sample was left alone
C16_WitnessBeyondSample ==
  /\ call.fn = "sanitize_dataframe" /\ call.done
  /\ Len(call.df[1].cells) > SampleSize
  /\ IsComposite(call.df[1].cells[SampleSize + 1])
  /\ call.ret[1] = call.df[1]

\* C17: after sanitize_dataframe no cell of any column, at any row, is
\* still a dict, list or tuple.
C17_UniformlyScalar ==
  (call.fn = "sanitize_dataframe" /\ call.done) =>
    \A c \in DOMAIN call.ret : \A i \in DOMAIN call.ret[c].cells :
      ~IsComposite(call.ret[c].cells[i])

\* ------------------------------------------------------------------------
\* _make_unique_columns
\* ------------------------------------------------------------------------
MaxCols == 3

\* A column name is its text up to the first suffix followed by the numbers
\* of the suffixes "__k" it ends with: <<1>> is "price", <<2>> is "qty",
\* <<1, 1>> is "price__1"
ColumnNames == {<<1>>, <<2>>, <<1, 1>>, <<1, 2>>}

\* f"{c}__{k}"
Suffixed(c, k) == Append(c, k)

ColumnLists == SeqsUpTo(ColumnNames, MaxCols)

\* Every later occurrence gets the suffix __1
RECURSIVE make_unique_loop_SameSuffix(_, _, _)
make_unique_loop_SameSuffix(cols, seen, out) ==
  IF cols = <<>> THEN out
  ELSE LET c == Head(cols)
       IN  IF c \notin DOMAIN seen
           THEN make_unique_loop_SameSuffix(Tail(cols), seen @@ (c :> 0), Append(out, c))
           ELSE make_unique_loop_SameSuffix(Tail(cols), seen, Append(out, Suffixed(c, 1)))

\* The for loop of _make_unique_columns over the names still to visit, with
\* the dict seen and the list out
RECURSIVE make_unique_loop(_, _, _)
make_unique_loop(cols, seen, out) ==
  IF cols = <<>> THEN out
  ELSE LET c == Head(cols)
       IN  IF c \notin DOMAIN seen
           THEN make_unique_loop(Tail(cols), seen @@ (c :> 0), Append(out, c))
           ELSE make_unique_loop(Tail(cols), [seen EXCEPT ![c] = @ + 1],
                                 Append(out, Suffixed(c, seen[c] + 1)))

NoSeen == [c \in {} |-> 0]

_make_unique_columns_SameSuffix(cols) == make_unique_loop_SameSuffix(cols, NoSeen, <<>>)

_make_unique_columns(cols) == make_unique_loop(cols, NoSeen, <<>>)

InitMakeUnique ==
  /\ script = "build_quotes"
  /\ catalog = NoCatalog
  /\ AtRest
  /\ call \in {[fn |-> "_make_unique_columns", cols |-> cs, done |-> FALSE,
                 ret |-> <<>>] : cs \in ColumnLists}

CallMakeUnique ==
  /\ call.fn = "_make_unique_columns"
  /\ ~call.done
  /\ call' = [call EXCEPT !.done = TRUE, !.ret = _make_unique_columns(call.cols)]
  /\ UNCHANGED <<script, catalog, cfg, pc, idx, last_wm, where, query, src, df,
                 wmFile, art, cyc, attempted>>

SpecMakeUnique == InitMakeUnique /\ [][CallMakeUnique]_vars

\* C14: the list _make_unique_columns returns has no duplicate names,
\* whatever the input, names of the form x__k included.
C14_NoDuplicateNames ==
  (call.fn = "_make_unique_columns" /\ call.done) =>
    \A i, j \in DOMAIN call.ret : i # j => call.ret[i] # call.ret[j]

\* Number of occurrences of the i-th name before position i
Earlier(cols, i) == Cardinality({j \in 1..(i - 1) : cols[j] = cols[i]})

\* C15: _make_unique_columns keeps length and order, leaves the first
\* occurrence of a name unchanged and renames its k-th later occurrence to
\* c__k; [price, price] becomes [price, price__1].
C15_SuffixLaterDuplicates ==
  (call.fn = "_make_unique_columns" /\ call.done) =>
    /\ Len(call.ret) = Len(call.cols)
    /\ \A i \in DOMAIN call.cols :
         call.ret[i] = IF Earlier(call.cols, i) = 0 THEN call.cols[i]
                       ELSE Suffixed(call.cols[i], Earlier(call.cols, i))
    /\ (call.cols = <<(<<1>>), (<<1>>)>> => call.ret = <<(<<1>>), (<<1, 1>>)>>)

C15_Witness ==
  /\ call.fn = "_make_unique_columns" /\ call.done
  /\ call.cols = <<(<<1>>), (<<1>>), (<<1>>)>>
  /\ call.ret = <<(<<1>>), (<<1, 1>>), (<<1, 2>>)>>

\* ------------------------------------------------------------------------
\* export_table on its own: what the files of a target hold
\* ------------------------------------------------------------------------
\* A file of the output directory: missing, cut short by a failed write
\* (partial), or written; parts are the frames it holds, in the order they
\* were written
NoPart == [state |-> "missing", parts |-> <<>>]
PartialPart == [state |-> "partial", parts |-> <<>>]
WrittenPart(parts) == [state |-> "written", parts |-> parts]

\* Frames handed to export_table: one column of up to MaxRows cells
ExportCells == {PyInt(1), PyList(<<PyInt(1)>>)}
ExportFrames ==
  {<<[name |-> "a", cells |-> cs]>> : cs \in SeqsUpTo(ExportCells, MaxRows)}

\* df.empty
IsEmptyFrame(frame) == \A c \in DOMAIN frame : Len(frame[c].cells) = 0

\* What an earlier run left for the target
PriorParts ==
  {NoPart} \cup {WrittenPart(<<sanitize_dataframe(f).df>>) :
                   f \in {g \in ExportFrames : ~IsEmptyFrame(g)}}

\* Path.unlink(missing_ok=True)
unlink(part) == NoPart

\* DataFrame.to_parquet / to_csv that returns: the file holds the frame and
\* nothing of what it held before
to_file(frame, part) == WrittenPart(<<frame>>)

\* export_table that keeps the part-file and adds the frame to it
export_table_content_Append(frame, files, c) ==
  IF IsEmptyFrame(frame) THEN {[files |-> files, raises |-> FALSE]}
  ELSE {[files |-> [files EXCEPT !.parquet =
                      IF c.EXPORTAR_PARQUET
                      THEN WrittenPart(Append(@.parts, sanitize_dataframe(frame).df))
                      ELSE @],
         raises |-> FALSE]}

\* export_table(df, name) on the files of the target: the outcomes
\* [files, raises].  Each step (sanitize_dataframe, mkdir, unlink,
\* to_parquet, mkdir, to_csv) can raise and leaves what the steps before it
\* did; a write that raises leaves its file missing, cut short or, for the
\* csv that is not unlinked first, as it was.
export_table_content(frame, files, c) ==
  IF IsEmptyFrame(frame) THEN {[files |-> files, raises |-> FALSE]}
  ELSE
    LET s == sanitize_dataframe(frame)
        unlinked == [files EXCEPT !.parquet = unlink(@)]
        afterParquet ==
          IF c.EXPORTAR_PARQUET THEN [files EXCEPT !.parquet = to_file(s.df, unlink(@))]
          ELSE files
        done ==
          IF c.EXPORTAR_CSV THEN [afterParquet EXCEPT !.csv = to_file(s.df, @)]
          ELSE afterParquet
    IN  IF s.raises THEN {[files |-> files, raises |-> TRUE]}
        ELSE {[files |-> done, raises |-> FALSE]}
             \* mkdir or unlink raised
             \cup (IF c.EXPORTAR_PARQUET THEN {[files |-> files, raises |-> TRUE]} ELSE {})
             \* to_parquet raised after the unlink
             \cup (IF c.EXPORTAR_PARQUET
                   THEN {[files |-> unlinked, raises |-> TRUE],
                         [files |-> [unlinked EXCEPT !.parquet = PartialPart],
                          raises |-> TRUE]}
                   ELSE {})
             \* mkdir of the csv directory or to_csv raised
             \cup (IF c.EXPORTAR_CSV
                   THEN {[files |-> afterParquet, raises |-> TRUE],
                         [files |-> [afterParquet EXCEPT !.csv = PartialPart],
                          raises |-> TRUE]}
                   ELSE {})

\* The settings of a process and the files an earlier run left, before
\* the first call
InitExport ==
  /\ script = "build_facts"
  /\ catalog = NoCatalog
  /\ AtRest
  /\ call \in {[fn |-> "export_table", c |-> LoadSettings(f),
                 files |-> [parquet |-> p, csv |-> NoPart],
                 before |-> [parquet |-> p, csv |-> NoPart],
                 frame |-> <<>>, done |-> FALSE, raises |-> FALSE, again |-> FALSE] :
               f \in SettingsFiles("build_facts"), p \in PriorParts}

\* export_table(df, name) of one target, called again and again
CallExportTable ==
  /\ call.fn = "export_table"
  /\ \E frame \in ExportFrames :
       \E o \in export_table_content(frame, call.files, call.c) :
         call' = [call EXCEPT !.files = o.files, !.before = call.files,
                              !.frame = frame, !.done = TRUE, !.raises = o.raises,
                              !.again = (call.done /\ ~call.raises /\ call.frame = frame)]
  /\ UNCHANGED <<script, catalog, cfg, pc, idx, last_wm, where, query, src, df,
                 wmFile, art, cyc, attempted>>

SpecExport == InitExport /\ [][CallExportTable]_vars

\* C12: after an export_table that returned, with parquet export on and a
\* frame that has rows, the part-file holds exactly the sanitized frame of
\* that call, nothing of the file that was there; the same frame exported
\* again leaves the same part-file.
C12_ParquetReplaced ==
  (call.fn = "export_table" /\ call.done /\ ~call.raises
   /\ call.c.EXPORTAR_PARQUET /\ ~IsEmptyFrame(call.frame)) =>
    /\ call.files.parquet = WrittenPart(<<sanitize_dataframe(call.frame).df>>)
    /\ (call.again => call.files.parquet = call.before.parquet)

\* The same frame exported twice over a part-file of another frame
C12_Witness ==
  /\ call.fn = "export_table" /\ call.done /\ ~call.raises
  /\ call.c.EXPORTAR_PARQUET /\ ~IsEmptyFrame(call.frame)
  /\ call.again
  /\ call.frame[1].cells = <<PyList(<<PyInt(1)>>)>>
  /\ call.files.parquet.parts[1][1].cells[1].ty = "text"

\* A call that replaced the part-file of another frame
C12_WitnessReplaced ==
  /\ call.fn = "export_table" /\ call.done /\ ~call.raises
  /\ call.c.EXPORTAR_PARQUET /\ ~IsEmptyFrame(call.frame)
  /\ call.before.parquet.state = "written"
  /\ call.before.parquet # call.files.parquet

\* C13: when export_table raises, the part-file that was there before the
\* call is still in place afterwards.
C13_FailureKeepsArtifact ==
  (call.fn = "export_table" /\ call.done /\ call.raises
   /\ call.before.parquet.state = "written") =>
    call.files.parquet = call.before.parquet

\* ------------------------------------------------------------------------
\* Select lists and output columns under varying source schemas
\* ------------------------------------------------------------------------
\* Largest number of candidate columns a partial source table has
MaxPresent == 2

SmallSubsets(S) ==
  {{}} \cup {{f[i] : i \in 1..MaxPresent} : f \in [1..MaxPresent -> S]} \cup {S}

\* One output column: its name, how it is resolved (a source column, a
\* NULL placeholder, a literal, a row number, the snapshot date, a value
\* computed from other columns) and the source column it reads
Item(alias, kind, col) == [alias |-> alias, kind |-> kind, col |-> col]

\* alias -> candidates, in the order of the sel.append lines
SqLogical ==
  <<"quote_id", "customer_id", "customer_user_id", "website_id", "po_number",
    "currency_code", "subtotal", "total", "created_at", "updated_at", "estado">>

SqCandidates(a) ==
  CASE a = "quote_id" -> <<"id">>
    [] a = "customer_id" -> <<"customer_id">>
    [] a = "customer_user_id" -> <<"customer_user_id">>
    [] a = "website_id" -> <<"website_id">>
    [] a = "po_number" -> <<"po_number">>
    [] a = "currency_code" ->
         <<"currency", "base_currency", "subtotal_currency", "total_currency">>
    [] a = "subtotal" -> <<"subtotal", "subtotal_value", "base_subtotal_value">>
    [] a = "total" -> <<"total", "total_value", "base_total_value">>
    [] a = "created_at" -> <<"created_at", "createdat">>
    [] a = "updated_at" -> <<"updated_at", "updatedat">>
    [] a = "estado" -> <<"internal_status_name", "status", "status_name">>

SqUniverse == UNION {Range(SqCandidates(SqLogical[i])) : i \in DOMAIN SqLogical}

\* The select list of build_query_fact_cotizacion over the columns of
\* public.oro_sale_quote: "<col> AS alias", else "NULL::type AS alias";
\* estado is COALESCE(<col>, 'Sin estado'), else the literal 'Sin estado'
select_fact_cotizacion(cols) ==
  [i \in DOMAIN SqLogical |->
     LET a == SqLogical[i]
         c == pick(cols, SqCandidates(a))
     IN  IF c # NoColumn THEN Item(a, "column", c)
         ELSE IF a = "estado" THEN Item(a, "literal", NoColumn)
         ELSE Item(a, "null", NoColumn)]

\* Columns of the product, request and offer tables the line query looks for
QpUniverse ==
  {"id", "quote_id", "product_id", "product_sku", "sku", "product_unit_code",
   "unit_code", "product_unit"}
ReqUniverse ==
  {"id", "quote_product_id", "quantity", "qty", "product_unit_code", "unit_code",
   "product_unit"}
OffUniverse ==
  {"id", "quote_product_request_id", "price", "value", "amount", "currency",
   "price_currency"}

NoTable == [exists |-> FALSE, cols |-> {}]
Table(cols) == [exists |-> TRUE, cols |-> cols]

ColumnOrNull(alias, c) ==
  IF c # NoColumn THEN Item(alias, "column", c) ELSE Item(alias, "null", NoColumn)

\* The select list of build_query_fact_cotizacion_linea (base_sel +
\* extra_sel) over the product table and the optional request and offer
\* tables.  raises: the offer join names req_id, a local assigned only in
\* the request block.
select_fact_cotizacion_linea(qp, req, off) ==
  LET qp_id == pick(qp.cols, <<"id">>)
      qp_unit == pick(qp.cols, <<"product_unit_code", "unit_code", "product_unit">>)
      base_sel ==
        <<ColumnOrNull("quote_id", pick(qp.cols, <<"quote_id">>)),
          IF qp_id # NoColumn THEN Item("quote_product_id", "column", qp_id)
          ELSE Item("quote_product_id", "rownum", NoColumn),
          ColumnOrNull("product_id", pick(qp.cols, <<"product_id">>)),
          ColumnOrNull("sku", pick(qp.cols, <<"product_sku", "sku">>)),
          ColumnOrNull("product_unit", qp_unit)>>
      req_id == pick(req.cols, <<"id">>)
      req_qp == pick(req.cols, <<"quote_product_id">>)
      req_unit == pick(req.cols, <<"product_unit_code", "unit_code", "product_unit">>)
      req_sel ==
        IF req.exists /\ req_qp # NoColumn /\ req_id # NoColumn
        THEN <<Item("request_id", "column", req_id),
               ColumnOrNull("quantity", pick(req.cols, <<"quantity", "qty">>))>>
             \o (IF req_unit # NoColumn /\ qp_unit = NoColumn
                 THEN <<Item("product_unit", "column", req_unit)>> ELSE <<>>)
        ELSE <<Item("request_id", "null", NoColumn), Item("quantity", "null", NoColumn)>>
      off_id == pick(off.cols, <<"id">>)
      off_req == pick(off.cols, <<"quote_product_request_id">>)
      off_join == off.exists /\ off_req # NoColumn /\ off_id # NoColumn
      off_sel ==
        IF off_join
        THEN <<Item("offer_id", "column", off_id),
               ColumnOrNull("price", pick(off.cols, <<"price", "value", "amount">>)),
               ColumnOrNull("currency_code", pick(off.cols, <<"currency", "price_currency">>))>>
        ELSE <<Item("offer_id", "null", NoColumn), Item("price", "null", NoColumn),
               Item("currency_code", "null", NoColumn)>>
  IN  [raises |-> off_join /\ ~req.exists,
       sel |-> base_sel \o req_sel \o off_sel]

\* Candidates of build_snapshot
ProductCands == <<"product_id", "product", "productid", "producto_id">>
WarehouseCands ==
  <<"warehouse_id", "warehouse", "warehouseid", "almacen_id", "source_warehouse_id">>
DispCands ==
  <<"stock_disponible", "available_qty", "available_quantity", "on_hand", "onhand",
    "quantity", "qty", "inventory_qty">>
TotalCands == <<"stock_total", "total_qty", "total_quantity", "cantidad_total">>
ResvCands ==
  <<"stock_reservado", "reserved_qty", "reserved_quantity", "allocated_qty", "asignado">>
UnitCands == <<"product_unit", "unit", "unidad", "product_unit_code">>

ordered ==
  <<"fecha_snapshot", "product_id", "almacen_id", "stock_disponible",
    "stock_reservado", "stock_total", "unidad">>

\* Columns oro_inventory_level_granular may expose: every candidate, and
\* one column build_snapshot has no use for
InvUniverse ==
  Range(ProductCands) \cup Range(WarehouseCands) \cup Range(DispCands)
  \cup Range(TotalCands) \cup Range(ResvCands) \cup Range(UnitCands) \cup {"sku"}

\* Columns of the frame build_snapshot returns: out[ordered], then the
\* source columns not named like one of them.  raises: no product column.
build_snapshot(cols) ==
  LET product_col == pick(cols, ProductCands)
      disp_col == pick(cols, DispCands)
      total_col == pick(cols, TotalCands)
      resv_col == pick(cols, ResvCands)
      disp == IF disp_col # NoColumn THEN Item("stock_disponible", "column", disp_col)
              ELSE IF total_col # NoColumn /\ resv_col # NoColumn
              THEN Item("stock_disponible", "derived", NoColumn)
              ELSE Item("stock_disponible", "null", NoColumn)
      resv == IF resv_col # NoColumn THEN Item("stock_reservado", "column", resv_col)
              ELSE IF total_col # NoColumn /\ disp.kind # "null"
              THEN Item("stock_reservado", "derived", NoColumn)
              ELSE Item("stock_reservado", "null", NoColumn)
      total == IF total_col # NoColumn THEN Item("stock_total", "column", total_col)
               ELSE IF disp.kind # "null" /\ resv.kind # "null"
               THEN Item("stock_total", "derived", NoColumn)
               ELSE Item("stock_total", "null", NoColumn)
  IN  [raises |-> product_col = NoColumn,
       sel |-> <<Item("fecha_snapshot", "param", NoColumn),
                 Item("product_id", "column", product_col),
                 ColumnOrNull("almacen_id", pick(cols, WarehouseCands)),
                 disp, resv, total,
                 ColumnOrNull("unidad", pick(cols, UnitCands))>>,
       extras |-> cols \ Range(ordered)]

\* The table aliases the statement of build_query_fact_cotizacion_linea
\* introduces (qp in FROM, req, off, sq by the joins) and the columns it
\* names, each with the alias it is qualified by: select items, join
\* conditions, timestamp expression and ORDER BY.  A name picked as None
\* is written into the text as None.
linea_references(qp, req, off, sq) ==
  LET Ref(a, c) == [alias |-> a, col |-> c]
      Present(a, S) == {Ref(a, c) : c \in S \ {NoColumn}}
      qp_id == pick(qp.cols, <<"id">>)
      qp_quote == pick(qp.cols, <<"quote_id">>)
      qp_unit == pick(qp.cols, <<"product_unit_code", "unit_code", "product_unit">>)
      req_id == pick(req.cols, <<"id">>)
      req_qp == pick(req.cols, <<"quote_product_id">>)
      req_unit == pick(req.cols, <<"product_unit_code", "unit_code", "product_unit">>)
      req_join == req.exists /\ req_qp # NoColumn /\ req_id # NoColumn
      off_id == pick(off.cols, <<"id">>)
      off_req == pick(off.cols, <<"quote_product_request_id">>)
      off_join == off.exists /\ off_req # NoColumn /\ off_id # NoColumn
      c_created == pick(sq.cols, <<"created_at">>)
      c_updated == pick(sq.cols, <<"updated_at">>)
      sq_join == sq.exists /\ or(c_updated, c_created) # NoColumn
  IN  [joins |-> {"qp"} \cup (IF req_join THEN {"req"} ELSE {})
                 \cup (IF off_join THEN {"off"} ELSE {})
                 \cup (IF sq_join THEN {"sq"} ELSE {}),
       refs |->
         Present("qp", {qp_quote, qp_id, pick(qp.cols, <<"product_id">>),
                        pick(qp.cols, <<"product_sku", "sku">>), qp_unit})
         \cup (IF req_join
               THEN {Ref("req", req_qp), Ref("qp", qp_id), Ref("req", req_id)}
                    \cup Present("req", {pick(req.cols, <<"quantity", "qty">>)})
                    \cup (IF qp_unit = NoColumn THEN Present("req", {req_unit}) ELSE {})
               ELSE {})
         \cup (IF off_join
               THEN {Ref("off", off_req), Ref("req", req_id), Ref("off", off_id)}
                    \cup Present("off", {pick(off.cols, <<"price", "value", "amount">>),
                                         pick(off.cols, <<"currency", "price_currency">>)})
               ELSE {})
         \cup (IF sq_join
               THEN {Ref("sq", "id"), Ref("qp", or(qp_quote, "quote_id")),
                     Ref("sq", or(c_updated, c_created)), Ref("sq", or(c_created, c_updated))}
               ELSE {Ref("qp", or(qp_id, "id"))})]

SchemaTargets ==
  {"fact_cotizacion", "fact_cotizacion_linea", "fact_inventario_snapshot_diario"}

\* The source tables a target reads, each with some of the columns looked
\* for; the request and offer tables may be missing
SourceSchemas(t) ==
  CASE t = "fact_cotizacion" ->
         {[sq |-> Table(X), qp |-> NoTable, req |-> NoTable, off |-> NoTable,
           inv |-> NoTable] : X \in SmallSubsets(SqUniverse)}
    [] t = "fact_cotizacion_linea" ->
         {[sq |-> q, qp |-> Table(X), req |-> r, off |-> o, inv |-> NoTable] :
            q \in {NoTable, Table({"id"}), Table({"id", "updated_at"}),
                   Table({"created_at"})},
            X \in SmallSubsets(QpUniverse),
            r \in {NoTable} \cup {Table(Y) : Y \in SmallSubsets(ReqUniverse)},
            o \in {NoTable} \cup {Table(Z) : Z \in SmallSubsets(OffUniverse)}}
    [] OTHER ->
         {[sq |-> NoTable, qp |-> NoTable, req |-> NoTable, off |-> NoTable,
           inv |-> Table(X)] : X \in SmallSubsets(InvUniverse)}

InitSchema ==
  /\ script = "build_quotes"
  /\ catalog = NoCatalog
  /\ AtRest
  /\ \E t \in SchemaTargets : \E sch \in SourceSchemas(t) :
       call = [fn |-> "select", target |-> t, tables |-> sch, done |-> FALSE,
               raises |-> FALSE, sel |-> <<>>, extras |-> {},
               joins |-> {}, refs |-> {}]

\* The query builder of the target, or build_snapshot, on the schema
CallSelect ==
  /\ call.fn = "select"
  /\ ~call.done
  /\ LET t == call.tables
         r == CASE call.target = "fact_cotizacion" ->
                     [raises |-> FALSE, sel |-> select_fact_cotizacion(t.sq.cols),
                      extras |-> {}]
                [] call.target = "fact_cotizacion_linea" ->
                     [raises |-> select_fact_cotizacion_linea(t.qp, t.req, t.off).raises,
                      sel |-> select_fact_cotizacion_linea(t.qp, t.req, t.off).sel,
                      extras |-> {}]
                [] OTHER -> build_snapshot(t.inv.cols)
     IN  call' = [call EXCEPT !.done = TRUE, !.raises = r.raises,
                              !.sel = IF r.raises THEN <<>> ELSE r.sel,
                              !.extras = IF r.raises THEN {} ELSE r.extras,
                              !.joins = IF r.raises \/ call.target # "fact_cotizacion_linea"
                                        THEN {}
                                        ELSE linea_references(t.qp, t.req, t.off, t.sq).joins,
                              !.refs = IF r.raises \/ call.target # "fact_cotizacion_linea"
                                       THEN {}
                                       ELSE linea_references(t.qp, t.req, t.off, t.sq).refs]
  /\ UNCHANGED <<script, catalog, cfg, pc, idx, last_wm, where, query, src, df,
                 wmFile, art, cyc, attempted>>

SpecSchema == InitSchema /\ [][CallSelect]_vars

\* The logical output columns of a target
LogicalColumns(t) ==
  CASE t = "fact_cotizacion" -> SqLogical
    [] t = "fact_cotizacion_linea" ->
         <<"quote_id", "quote_product_id", "product_id", "sku", "product_unit",
           "request_id", "quantity", "offer_id", "price", "currency_code">>
    [] OTHER -> ordered

\* The column of the output frame found under a name: the first one
FirstNamed(sel, a) ==
  sel[CHOOSE i \in DOMAIN sel :
        sel[i].alias = a /\ \A j \in 1..(i - 1) : sel[j].alias # a]

\* Every logical column is in the output of a target that was built
C20_NoColumnOmitted ==
  (call.fn = "select" /\ call.done /\ ~call.raises) =>
    \A a \in Range(LogicalColumns(call.target)) :
      \E i \in DOMAIN call.sel : call.sel[i].alias = a

\* C20: whatever optional columns and tables the source has, every logical
\* output column is in the output under its name, and is either read from
\* the source or a NULL placeholder.
C20_SchemaStable ==
  (call.fn = "select" /\ call.done /\ ~call.raises) =>
    \A a \in Range(LogicalColumns(call.target)) :
      /\ \E i \in DOMAIN call.sel : call.sel[i].alias = a
      /\ FirstNamed(call.sel, a).kind \in {"column", "derived", "param", "null"}

\* The source column the primary id of the target is read from, if any
\* candidate name is in the introspected column set
MandatoryId(t, tables) ==
  CASE t = "fact_cotizacion" -> pick(tables.sq.cols, <<"id">>)
    [] t = "fact_cotizacion_linea" -> pick(tables.qp.cols, <<"id">>)
    [] OTHER -> pick(tables.inv.cols, ProductCands)

\* C21: when the primary id of the target resolves to no source column the
\* builder raises; it never returns a query or frame with the id replaced.
C21_FailFastOnMissingId ==
  (call.fn = "select" /\ call.done
   /\ MandatoryId(call.target, call.tables) = NoColumn) =>
    call.raises

\* What the code does give: the snapshot builder raises without a product
\* column
C21_SnapshotFailsFast ==
  (call.fn = "select" /\ call.done
   /\ call.target = "fact_inventario_snapshot_diario"
   /\ MandatoryId(call.target, call.tables) = NoColumn) =>
    call.raises

\* The columns of the table an alias of the line query stands for
ColumnsOfAlias(tables, a) ==
  CASE a = "qp" -> tables.qp.cols
    [] a = "req" -> tables.req.cols
    [] a = "off" -> tables.off.cols
    [] OTHER -> tables.sq.cols

\* C29: for every combination of optional tables and candidate columns,
\* build_query_fact_cotizacion_linea returns a query without raising, and
\* every alias the query names is introduced by one of its joins and
\* every column it names exists in the table of its alias.
C29_LineaQueryValid ==
  (call.fn = "select" /\ call.done /\ call.target = "fact_cotizacion_linea") =>
    /\ ~call.raises
    /\ \A r \in call.refs :
         /\ r.alias \in call.joins
         /\ r.col \in ColumnsOfAlias(call.tables, r.alias)

\* With the product, request and offer tables complete and the quote table
\* carrying id and a timestamp, the query is well formed
C29_StandardSchemaValid ==
  (call.fn = "select" /\ call.done /\ call.target = "fact_cotizacion_linea"
   /\ call.tables.qp.cols = QpUniverse /\ call.tables.req.cols = ReqUniverse
   /\ call.tables.off.cols = OffUniverse
   /\ call.tables.sq \in {NoTable, Table({"id", "updated_at"})}) =>
    /\ ~call.raises
    /\ \A r \in call.refs :
         /\ r.alias \in call.joins
         /\ r.col \in ColumnsOfAlias(call.tables, r.alias)

\* ------------------------------------------------------------------------
\* Settings defaults
\* ------------------------------------------------------------------------
\* A script is started with one of the settings files it can find
InitSettings ==
  /\ script = "build_quotes"
  /\ catalog = NoCatalog
  /\ AtRest
  /\ \E s \in Scripts : \E f \in SettingsFiles(s) :
       call = [fn |-> "settings", script |-> s, file |-> f, done |-> FALSE,
               cfg |-> NoSettings]

\* The module body of the script: settings.yaml into the module globals
CallLoadSettings ==
  /\ call.fn = "settings"
  /\ ~call.done
  /\ call' = [call EXCEPT !.done = TRUE, !.cfg = LoadSettings(call.file)]
  /\ UNCHANGED <<script, catalog, cfg, pc, idx, last_wm, where, query, src, df,
                 wmFile, art, cyc, attempted>>

SpecSettings == InitSettings /\ [][CallLoadSettings]_vars

\* C23: a key missing from the settings resolves to the conservative
\* default: parquet export on, csv export off, incremental off for order
\* lines, payments and quotes.
C23_ConservativeDefaults ==
  (call.fn = "settings" /\ call.done) =>
    /\ call.file.exportar_parquet = "absent" => call.cfg.EXPORTAR_PARQUET
    /\ call.file.exportar_csv = "absent" => ~call.cfg.EXPORTAR_CSV
    /\ call.file.order_lines = "absent" => ~call.cfg.order_lines
    /\ call.file.payments = "absent" => ~call.cfg.payments
    /\ call.file.quotes = "absent" => ~call.cfg.quotes

\* The defaults of build_facts are the conservative ones
C23_FactsDefaults ==
  (call.fn = "settings" /\ call.done /\ call.script = "build_facts") =>
    /\ call.file.exportar_parquet = "absent" => call.cfg.EXPORTAR_PARQUET
    /\ call.file.exportar_csv = "absent" => ~call.cfg.EXPORTAR_CSV
    /\ call.file.order_lines = "absent" => ~call.cfg.order_lines
    /\ call.file.payments = "absent" => ~call.cfg.payments

\* ------------------------------------------------------------------------
\* Watermark and written artifacts
\* ------------------------------------------------------------------------
\* C26: the state file of a target differs from what it was when the
\* section started only if the section wrote an artifact of the target: a
\* section that wrote no file (empty result, or parquet and csv export both
\* off) leaves the watermark as it was.
C26_WatermarkNeedsArtifact ==
  (cyc.target \in Targets /\ wmFile[cyc.target] # cyc.file0)
    => (art.parquet = "new" \/ art.csv = "new")

\* With parquet or csv export on, a changed state file comes with a
\* written artifact
C26_WhenExportEnabled ==
  (cyc.target \in Targets /\ wmFile[cyc.target] # cyc.file0
   /\ (cfg.EXPORTAR_PARQUET \/ cfg.EXPORTAR_CSV))
    => (art.parquet = "new" \/ art.csv = "new")

\* ------------------------------------------------------------------------
\* Predicate column and watermark column
\* ------------------------------------------------------------------------
\* C27: in an incremental run of any target, a source row whose update
\* timestamp is null and whose creation timestamp is strictly greater than
\* the stored watermark is in the frame: the predicate falls back to the
\* creation timestamp as max_timestamp does.
C27_FallbackRowsReturned ==
  (pc = "export" /\ where.used) =>
    \A r \in src :
      (r.u = NULL /\ r.c # NULL /\ r.c > where.params)
        => Project(target, query, r) \in df.rows

\* The targets whose predicate is a COALESCE of both timestamps return
\* such rows
C27_CoalesceTargetsReturn ==
  (pc = "export" /\ where.used /\ target # "fact_ventas_linea") =>
    \A r \in src :
      (r.u = NULL /\ r.c # NULL /\ r.c > where.params)
        => Project(target, query, r) \in df.rows

\* ------------------------------------------------------------------------
\* Watermark string and the maximum it is taken from
\* ------------------------------------------------------------------------
\* C28: the watermark a section wrote is not later than the maximum
\* timestamp mx of its frame and less than one second earlier; so the
\* predicate the next incremental run builds from it keeps every row whose
\* timestamp is above mx.
C28_WatermarkWithinSecond ==
  (cyc.wrote /\ cyc.status = "ok") =>
    LET wm == wmFile[cyc.target].watermark
        w == build_where_incremental(IncrColumn(cyc.target), TRUE, wm)
    IN /\ wm <= cyc.mx
       /\ cyc.mx < wm + Sub
       /\ \A r \in Rows :
            LET ts == EvalColumn(IncrColumn(cyc.target), r)
            IN (ts # NULL /\ ts > cyc.mx) => Satisfies(r, w)

\* An incremental section wrote the watermark of a frame whose maximum has
\* a fraction of a second
C28_Witness ==
  /\ cyc.wrote
  /\ cyc.status = "ok"
  /\ cyc.used
  /\ cyc.mx % Sub # 0
  /\ wmFile[cyc.target].watermark < cyc.mx

\* ------------------------------------------------------------------------
\* The joins of the line query on the rows of the three tables
\* ------------------------------------------------------------------------
MaxParents == 2
MaxChildren == 3

\* Rows of a child table (request, offer): the primary key id and the
\* nullable foreign key to the parent
ChildTables(parents) ==
  UNION {{{[id |-> i, parent |-> f[i]] : i \in S} :
            f \in [S -> parents \cup {NULL}]} : S \in SUBSET (1..MaxChildren)}

\* Every child row that has a parent is kept
min_id_subselect_AllChildren(rows) == {r \in rows : r.parent # NULL}

\* SELECT r1.* FROM t r1 JOIN (SELECT fk, MIN(id) AS min_id FROM t GROUP BY
\* fk) rmin ON rmin.fk = r1.fk AND rmin.min_id = r1.id.  The group of the
\* NULL keys joins with no row: NULL = NULL is not true.
min_id_subselect(rows) ==
  {r \in rows :
     /\ r.parent # NULL
     /\ \A x \in rows : x.parent = r.parent => r.id <= x.id}

\* left LEFT JOIN right ON right.parent = key(l): every left row with each
\* matching right row, or once with NULL when none matches
left_join(left, right, key(_), put(_, _)) ==
  UNION {LET m == {r \in right : key(l) # NULL /\ r.parent = key(l)}
         IN IF m = {} THEN {put(l, NULL)} ELSE {put(l, r.id) : r \in m} :
         l \in left}

\* Rows of the statement of build_query_fact_cotizacion_linea without a
\* where-clause: qp LEFT JOIN req ON req.quote_product_id = qp.id
\* LEFT JOIN off ON off.quote_product_request_id = req.id
linea_rows(qp, req, off) ==
  LET QpKey(l) == l.quote_product_id
      ReqKey(l) == l.request_id
      PutReq(l, v) == [quote_product_id |-> l.quote_product_id, request_id |-> v]
      PutOff(l, v) == [quote_product_id |-> l.quote_product_id,
                       request_id |-> l.request_id, offer_id |-> v]
      withReq == left_join({[quote_product_id |-> p] : p \in qp},
                           min_id_subselect(req), QpKey, PutReq)
  IN  left_join(withReq, min_id_subselect(off), ReqKey, PutOff)

InitLineaJoin ==
  /\ script = "build_quotes"
  /\ catalog = NoCatalog
  /\ AtRest
  /\ \E qp \in SUBSET (1..MaxParents) :
     \E req \in ChildTables(1..MaxParents) :
     \E off \in ChildTables(1..MaxChildren) :
       call = [fn |-> "linea_rows", qp |-> qp, req |-> req, off |-> off,
               done |-> FALSE, rows |-> {}]

\* The statement runs on the three tables
CallLineaRows ==
  /\ call.fn = "linea_rows"
  /\ ~call.done
  /\ call' = [call EXCEPT !.done = TRUE,
                          !.rows = linea_rows(call.qp, call.req, call.off)]
  /\ UNCHANGED <<script, catalog, cfg, pc, idx, last_wm, where, query, src, df,
                 wmFile, art, cyc, attempted>>

SpecLineaJoin == InitLineaJoin /\ [][CallLineaRows]_vars

\* The least id among the children of a parent, NULL without children
LeastChild(rows, p) ==
  LET ids == {r.id : r \in {x \in rows : x.parent = p}}
  IN IF p = NULL \/ ids = {} THEN NULL
     ELSE CHOOSE i \in ids : \A j \in ids : i <= j

\* C22: the result has exactly one row per quote-product row; its request
\* is the request of that product with the least id (none if it has no
\* request) and its offer is the offer of that request with the least id.
C22_MinIdChild ==
  (call.fn = "linea_rows" /\ call.done) =>
    /\ \A p \in call.qp :
         Cardinality({r \in call.rows : r.quote_product_id = p}) = 1
    /\ \A r \in call.rows :
         /\ r.quote_product_id \in call.qp
         /\ r.request_id = LeastChild(call.req, r.quote_product_id)
         /\ r.offer_id = LeastChild(call.off, r.request_id)

\* A product with three requests, whose least request has two offers
C22_Witness ==
  /\ call.fn = "linea_rows"
  /\ call.done
  /\ \E r \in call.rows :
       /\ Cardinality({x \in call.req : x.parent = r.quote_product_id}) = 3
       /\ Cardinality({x \in call.off : x.parent = r.request_id}) = 2
       /\ r.offer_id # NULL

\* ------------------------------------------------------------------------
\* Two consecutive runs over an unchanged source
\* ------------------------------------------------------------------------
\* Module globals with the incremental flag of every target set to incr
SettingsWith(parquet, csv, incr) ==
  [EXPORTAR_PARQUET |-> parquet, EXPORTAR_CSV |-> csv,
   order_lines |-> incr, payments |-> incr, quotes |-> incr]

\* The query template of a target
QueryOf(t, cat) ==
  IF t = "fact_cotizacion" THEN build_query_fact_cotizacion(cat)
  ELSE IF t = "fact_cotizacion_linea" THEN build_query_fact_cotizacion_linea(cat)
  ELSE NoQuery

\* A target, the settings, the rows of its source, its state file and its
\* artifacts before the first of two runs; the quote tables all exist
InitFullLoad ==
  /\ script = "build_facts"
  /\ catalog = NoCatalog
  /\ AtRest
  /\ \E t \in Targets :
     \E cat \in (IF t \in {"fact_ventas_linea", "fact_pago"} THEN {NoCatalog}
                 ELSE {c \in Catalogs : c.tables = QuoteTables}) :
     \E s \in SourcesOf(t, cat, QueryOf(t, cat)) :
     \E f \in Files :
     \E prior \in PriorArtifacts :
     \E c \in {SettingsWith(p, v, i) : p \in BOOLEAN, v \in BOOLEAN, i \in BOOLEAN} :
       call = [fn |-> "section", target |-> t, cat |-> cat, src |-> s,
               file0 |-> f, file |-> f, art |-> prior, cfg |-> c, runs |-> 0,
               failed |-> FALSE, frames |-> <<>>, arts |-> <<>>]

\* One run of the section of the target, none of its file operations
\* failing: read_watermark, the statement, export_table, max_timestamp,
\* write_watermark
CallSection ==
  /\ call.fn = "section"
  /\ call.runs < 2
  /\ ~call.failed
  /\ LET t == call.target
         files == [x \in Targets |-> call.file]
         q == QueryOf(t, call.cat)
         w == IF q.slot
              THEN build_where_incremental(IncrColumn(t), incr_enabled(call.cfg, t),
                                           read_watermark(files, t))
              ELSE NoWhere
         frame == read_sql_to_df(t, q, w, call.src)
         wm == max_timestamp(frame, TsCols(t))
     IN IF q.raises \/ SqlError(t, call.cat, q, w)
        THEN call' = [call EXCEPT !.failed = TRUE]
        ELSE \E o \in export_table(frame, call.art, call.cfg) :
               /\ ~o.raises
               /\ call' = [call EXCEPT
                             !.runs = @ + 1,
                             !.art = o.a,
                             !.frames = Append(@, frame),
                             !.arts = Append(@, o.a),
                             !.file = IF wm # None /\ incr_enabled(call.cfg, t)
                                      THEN write_watermark(files, t, wm)[t]
                                      ELSE @]
  /\ UNCHANGED <<script, catalog, cfg, pc, idx, last_wm, where, query, src, df,
                 wmFile, art, cyc, attempted>>

SpecFullLoad == InitFullLoad /\ [][CallSection]_vars

C24_WitnessIncremental ==
  /\ call.fn = "section"
  /\ call.runs = 2
  /\ incr_enabled(call.cfg, call.target)
  /\ call.frames[1] # call.frames[2]
  /\ call.file # call.file0

\* ------------------------------------------------------------------------
\* The frame build_snapshot assembles, column by column
\* ------------------------------------------------------------------------
MaxDates == 2
NaN == -3

\* pd.DataFrame(): no index, no columns.  A column is its name and one
\* cell per index label.
EmptyFrame == [index |-> {}, columns |-> <<>>]

Column(name, cells) == [name |-> name, cells |-> cells]

\* out[name] = scalar: the scalar in every row the frame has
setitem_scalar(out, name, v) ==
  [out EXCEPT !.columns = Append(@, Column(name, [i \in out.index |-> v]))]

\* out[name] = series.  A frame without index takes the index of the
\* series and its columns are reindexed, every new row NaN; then the series
\* is aligned on the index of the frame.
setitem_series(out, name, ser) ==
  LET base == IF out.index = {} /\ DOMAIN ser # {}
              THEN [index |-> DOMAIN ser,
                    columns |-> [k \in DOMAIN out.columns |->
                                   Column(out.columns[k].name,
                                          [i \in DOMAIN ser |-> NaN])]]
              ELSE out
  IN [base EXCEPT !.columns =
        Append(@, Column(name, [i \in base.index |->
                                  IF i \in DOMAIN ser THEN ser[i] ELSE NaN]))]

\* out[item.alias] = a series of the source (a column, or a value computed
\* from columns), or None
setitem(out, item, src_index) ==
  IF item.kind = "null" THEN setitem_scalar(out, item.alias, None)
  ELSE setitem_series(out, item.alias, [i \in src_index |-> i])

RECURSIVE setitems(_, _, _)
setitems(out, items, src_index) ==
  IF items = <<>> THEN out
  ELSE setitems(setitem(out, Head(items), src_index), Tail(items), src_index)

\* build_snapshot(df_src, fecha_snapshot) on a source of n rows with the
\* given columns: the date first, then product_id and the other columns;
\* the source columns in extras are concatenated to the right of them
build_snapshot_frame(cols, n, fecha) ==
  LET plan == build_snapshot(cols)
      dated == setitem_scalar(EmptyFrame, "fecha_snapshot", fecha)
  IN  IF plan.raises THEN [raises |-> TRUE, out |-> EmptyFrame, extras |-> {}]
      ELSE [raises |-> FALSE, out |-> setitems(dated, Tail(plan.sel), 1..n),
            extras |-> plan.extras]

InitSnapshot ==
  /\ script = "build_quotes"
  /\ catalog = NoCatalog
  /\ AtRest
  /\ \E cols \in SmallSubsets(InvUniverse) :
     \E n \in 1..MaxRows :
     \E fecha \in 1..MaxDates :
       call = [fn |-> "build_snapshot", cols |-> cols, n |-> n, fecha |-> fecha,
               done |-> FALSE, raises |-> FALSE, out |-> EmptyFrame,
               extras |-> {}]

CallBuildSnapshot ==
  /\ call.fn = "build_snapshot"
  /\ ~call.done
  /\ LET r == build_snapshot_frame(call.cols, call.n, call.fecha)
     IN call' = [call EXCEPT !.done = TRUE, !.raises = r.raises, !.out = r.out,
                             !.extras = r.extras]
  /\ UNCHANGED <<script, catalog, cfg, pc, idx, last_wm, where, query, src, df,
                 wmFile, art, cyc, attempted>>

SpecSnapshot == InitSnapshot /\ [][CallBuildSnapshot]_vars

\* C30: the frame build_snapshot returns for a non-empty source has one
\* row per source row, fecha_snapshot equal to the snapshot date in every
\* row, and the seven standard columns first, in their order.
C30_SnapshotRows ==
  (call.fn = "build_snapshot" /\ call.done /\ ~call.raises) =>
    /\ call.out.index = 1..call.n
    /\ [k \in 1..Len(ordered) |-> call.out.columns[k].name] = ordered
    /\ \A i \in call.out.index : call.out.columns[1].cells[i] = call.fecha

\* One row per source row and the seven standard columns first
C30_RowCountAndOrder ==
  (call.fn = "build_snapshot" /\ call.done /\ ~call.raises) =>
    /\ call.out.index = 1..call.n
    /\ [k \in 1..Len(ordered) |-> call.out.columns[k].name] = ordered

\* ------------------------------------------------------------------------
\* run_granular_sql: the .sql files of sql/granular against the database
\* ------------------------------------------------------------------------
MaxFiles == 3
MaxStmts == 2

\* Statements of a file after normalize_sql_and_split, each by what the
\* database does with it
StmtLists == UNION {[1..n -> {"ok", "error"}] : n \in 0..MaxStmts}

\* A .sql file: read_text returns its statements, or raises (not UTF-8,
\* not readable)
SqlFile(readable, stmts) == [readable |-> readable, stmts |-> stmts]
SqlFiles == {SqlFile(TRUE, st) : st \in StmtLists} \cup {SqlFile(FALSE, <<>>)}

\* sql/granular: file names (numbered prefixes) and their contents
SqlDirs == UNION {[names -> SqlFiles] : names \in SUBSET (1..MaxFiles)}

\* sorted(Path(sql_dir).glob("*.sql"))
RECURSIVE list_sql_files(_)
list_sql_files(names) ==
  IF names = {} THEN <<>>
  ELSE LET first == CHOOSE n \in names : \A m \in names : n <= m
       IN <<first>> \o list_sql_files(names \ {first})

\* The statements of a file the cursor executed before the first one that
\* fails; all of them when none fails
executed_stmts(stmts) ==
  {k \in DOMAIN stmts : \A j \in 1..k : stmts[j] = "ok"}

NoSqlRun ==
  [pc |-> "loop", idx |-> 1, order |-> <<>>, committed |-> {}, commits |-> {},
   ok_files |-> 0, reported |-> None]

InitGranular ==
  /\ script = "build_facts"
  /\ catalog = NoCatalog
  /\ AtRest
  /\ \E dir \in SqlDirs : \E dry \in BOOLEAN :
       call = [fn |-> "run_granular_sql", dir |-> dir, DRY_RUN |-> dry,
               files |-> list_sql_files(DOMAIN dir), run |-> NoSqlRun]

\* One iteration of the loop over the files.  normalize_sql_and_split is
\* called outside the try: its exception ends main.  A dry run counts the
\* file and goes on.  Otherwise the statements run on one cursor; the
\* first failure rolls the transaction back, no failure commits it.
RunSqlFile ==
  /\ call.fn = "run_granular_sql"
  /\ call.run.pc = "loop"
  /\ call.run.idx <= Len(call.files)
  /\ LET r == call.run
         name == call.files[r.idx]
         f == call.dir[name]
         pending == {[file |-> name, stmt |-> k] : k \in executed_stmts(f.stmts)}
         failed == \E k \in DOMAIN f.stmts : f.stmts[k] = "error"
         started == [r EXCEPT !.order = Append(@, name)]
     IN call' =
          [call EXCEPT !.run =
             IF ~f.readable THEN [started EXCEPT !.pc = "crashed"]
             ELSE IF call.DRY_RUN
             THEN [started EXCEPT !.ok_files = @ + 1, !.idx = @ + 1]
             ELSE IF failed
             THEN [started EXCEPT !.idx = @ + 1]
             ELSE [started EXCEPT !.committed = @ \cup pending,
                                  !.commits = @ \cup {name},
                                  !.ok_files = @ + 1, !.idx = @ + 1]]
  /\ UNCHANGED <<script, catalog, cfg, pc, idx, last_wm, where, query, src, df,
                 wmFile, art, cyc, attempted>>

\* After the loop: "Archivos ejecutados con éxito: ok_files/len(files)";
\* without files main returns before the loop and reports nothing
ReportSqlRun ==
  /\ call.fn = "run_granular_sql"
  /\ call.run.pc = "loop"
  /\ call.run.idx > Len(call.files)
  /\ call' = [call EXCEPT !.run.pc = "done",
                          !.run.reported = IF call.files = <<>> THEN None
                                           ELSE call.run.ok_files]
  /\ UNCHANGED <<script, catalog, cfg, pc, idx, last_wm, where, query, src, df,
                 wmFile, art, cyc, attempted>>

NextGranular ==
  \/ RunSqlFile
  \/ ReportSqlRun

SpecGranular == InitGranular /\ [][NextGranular]_vars

\* The statements of a file that are committed in the database
CommittedOf(name) == {e.stmt : e \in {x \in call.run.committed : x.file = name}}

\* After a run over names: they ran in file-name order, each file has all
\* of its statements committed or none, and the count reported is the
\* number of files committed
SqlRunAsDocumented ==
  /\ call.run.order = call.files
  /\ \A i, j \in DOMAIN call.run.order : i < j => call.run.order[i] < call.run.order[j]
  /\ \A name \in DOMAIN call.dir :
       CommittedOf(name) \in {{}, DOMAIN call.dir[name].stmts}
  /\ \A name \in DOMAIN call.dir :
       name \in call.run.commits <=>
         (\A k \in DOMAIN call.dir[name].stmts : call.dir[name].stmts[k] = "ok")
  /\ call.run.reported = Cardinality(call.run.commits)

\* C25: when main has ended, the files have run in file-name order, every
\* one of them, each with all of its statements committed or none, a
\* failed file not keeping the following ones from running, and the success
\* count reported is the number of files committed.
C25_FilesInOwnTransaction ==
  (call.fn = "run_granular_sql" /\ call.run.pc \in {"done", "crashed"}
   /\ call.files # <<>>) => SqlRunAsDocumented

\* The same for a run that executes (no dry run) over files that can be read
C25_ExecutedRun ==
  (call.fn = "run_granular_sql" /\ call.run.pc \in {"done", "crashed"}
   /\ call.files # <<>> /\ ~call.DRY_RUN
   /\ \A name \in DOMAIN call.dir : call.dir[name].readable) => SqlRunAsDocumented
====
